---- MODULE Spec2Model ----
(***************************************************************************)
(* filedock backend: the folder tree (services/folder_service.py), the     *)
(* file registry (services/file_service.py), the blob store                *)
(* (services/storage_service.py) and the relational schema                 *)
(* (models/file.py), as a state machine over the two tables and the blob   *)
(* store.  One action per service method; every method is a function       *)
(* from (database, arguments) to an outcome (HTTP status, detail, new      *)
(* database), which the action applies.                                    *)
(***************************************************************************)
EXTENDS Integers, Sequences, FiniteSets, TLC

VARIABLES
    folders,    \* table "folders": id -> [name, parent_id, created_by]
    files,      \* table "files":   id -> [slug, storage_key, is_public, ...]
    blobs,      \* the blob store: the set of storage keys that hold an object
    nextFolder, \* the next fresh folder id (uuid4: never reused)
    nextFile,   \* the next fresh file id / storage-key id (uuid4: never reused)
    reqs        \* requests that interleave: id -> local variables

vars == <<folders, files, blobs, nextFolder, nextFile, reqs>>

----------------------------------------------------------------------------
(* Bounds of the model *)

\* folders ever created in a behaviour of SpecTree
MaxFolders == 3
\* folders ever created in a behaviour of SpecFiles
MaxFileFolders == 1
\* files ever uploaded in a behaviour of SpecFiles
MaxFiles == 1
\* files ever uploaded in a behaviour of SpecSlug
MaxSlugFiles == 2
\* requests in flight at a time in SpecSlug
MaxReqs == 2
\* folders and files ever created in a behaviour of SpecView
MaxViewFolders == 2
MaxViewFiles == 1
\* files ever uploaded in a behaviour of SpecDetect
MaxDetectFiles == 2
\* folders and files ever created in a behaviour of SpecKeys
MaxKeyFolders == 1
MaxKeyFiles == 2
\* folders and files ever created in a behaviour of SpecCascade
MaxCascadeFolders == 3
MaxCascadeFiles == 2
\* folders and files ever created in a behaviour of SpecUnwind
MaxUnwindFolders == 3
MaxUnwindFiles == 1
\* the folders, oldest first, that files are put into in SpecUnwind
MaxUnwindFileFolders == 1
\* folders ever created in a behaviour of SpecMoves and of SpecNames
MaxRaceFolders == 2
\* folders and files ever created in a behaviour of SpecOrphans
MaxOrphanFolders == 2
MaxOrphanFiles == 1

Users == {1, 2, 3}
Admins == {3}
\* an actor is what the service is constructed with: (user_id, is_admin)
Actors == {[id |-> u, admin |-> (u \in Admins)] : u \in Users}
Names == {"a", "b"}

\* Python's None, per column type
NoId == 0
NoName == ""
NoText == "<None>"
NoSlug == <<>>

\* the ids a request may name when cap entities were ever created: the
\* existing ones, deleted ones and one that never existed
IdsUpTo(cap) == 1..(cap + 1)

----------------------------------------------------------------------------
(* HTTP status codes raised by the services *)

HTTP_200_OK == 200
HTTP_400_BAD_REQUEST == 400
HTTP_403_FORBIDDEN == 403
HTTP_404_NOT_FOUND == 404
HTTP_500_INTERNAL_SERVER_ERROR == 500

\* an outcome of a service method: the response and the database it leaves
Outcome(status, detail, fo, fi, bl) ==
    [status |-> status, detail |-> detail, folders |-> fo, files |-> fi, blobs |-> bl]

\* raise HTTPException: nothing was committed, the session is closed by get_db
Raise(status, detail) == Outcome(status, detail, folders, files, blobs)

----------------------------------------------------------------------------
(* Folder tree: services/folder_service.py *)

\* a plausible bug: "or" for "and" in the condition that raises
CheckFolderAccessOr(user_id, is_admin, folder) ==
    ~(~is_admin \/ folder.created_by # user_id)

\* _check_folder_access: TRUE iff no 403 is raised
CheckFolderAccess(user_id, is_admin, folder) ==
    ~(~is_admin /\ folder.created_by # user_id)

\* db.query(Folder).filter(Folder.parent_id == parent_id).all()
ChildrenOf(fo, parent_id) == {d \in DOMAIN fo : fo[d].parent_id = parent_id}

\* _is_descendant(parent_id, check_id): the recursion over the children; fuel
\* stands for the interpreter's recursion limit (never reached on a forest)
RECURSIVE IsDescendantRec(_, _, _, _)
IsDescendantRec(fo, parent_id, check_id, fuel) ==
    IF fuel = 0 THEN FALSE
    ELSE \E desc \in ChildrenOf(fo, parent_id) :
            \/ desc = check_id
            \/ IsDescendantRec(fo, desc, check_id, fuel - 1)

\* a plausible bug: only the direct children are checked
IsDescendantDirectOnly(fo, parent_id, check_id) ==
    check_id \in ChildrenOf(fo, parent_id)

IsDescendant(fo, parent_id, check_id) ==
    IsDescendantRec(fo, parent_id, check_id, Cardinality(DOMAIN fo) + 1)

\* a plausible bug: a database that does not enforce the foreign key
FolderForeignKeysUnchecked(fo) == TRUE

\* db.commit() of the folders table: the foreign key folders.parent_id ->
\* folders.id is checked by the database
FolderForeignKeysHold(fo) ==
    \A d \in DOMAIN fo : fo[d].parent_id = NoId \/ fo[d].parent_id \in DOMAIN fo

CommitFolders(fo) ==
    IF FolderForeignKeysHold(fo)
    THEN Outcome(HTTP_200_OK, "ok", fo, files, blobs)
    ELSE Raise(HTTP_500_INTERNAL_SERVER_ERROR, "IntegrityError")

\* the duplicate check of create_folder: same name, same parent, same owner
CreateDuplicateExists(name, parent_id, user_id) ==
    \E g \in DOMAIN folders :
        /\ folders[g].name = name
        /\ folders[g].parent_id = parent_id
        /\ folders[g].created_by = user_id

\* a plausible bug: a subfolder is given the owner of its parent
CreateFolderInheritsOwner(user_id, is_admin, name, parent_id) ==
    IF parent_id # NoId /\ parent_id \notin DOMAIN folders
    THEN Raise(HTTP_404_NOT_FOUND, "Parent folder not found")
    ELSE IF parent_id # NoId /\ ~is_admin /\ folders[parent_id].created_by # user_id
    THEN Raise(HTTP_403_FORBIDDEN, "You don't have permission to create folders here")
    ELSE IF CreateDuplicateExists(name, parent_id, user_id)
    THEN Raise(HTTP_400_BAD_REQUEST, "A folder with this name already exists in this location")
    ELSE CommitFolders(
            (nextFolder :> [name |-> name, parent_id |-> parent_id,
                            created_by |-> IF parent_id # NoId
                                           THEN folders[parent_id].created_by
                                           ELSE user_id])
                @@ folders)

\* create_folder(folder_data, user_id) on FolderService(db, user_id, is_admin)
CreateFolderOutcome(user_id, is_admin, name, parent_id) ==
    IF parent_id # NoId /\ parent_id \notin DOMAIN folders
    THEN Raise(HTTP_404_NOT_FOUND, "Parent folder not found")
    ELSE IF parent_id # NoId /\ ~is_admin /\ folders[parent_id].created_by # user_id
    THEN Raise(HTTP_403_FORBIDDEN, "You don't have permission to create folders here")
    ELSE IF CreateDuplicateExists(name, parent_id, user_id)
    THEN Raise(HTTP_400_BAD_REQUEST, "A folder with this name already exists in this location")
    ELSE CommitFolders(
            (nextFolder :> [name |-> name, parent_id |-> parent_id, created_by |-> user_id])
                @@ folders)

\* a plausible bug: the check runs before the move is applied to the record,
\* and so reads the old parent
UpdateDuplicateChecksOldParent(folder_id, name, parent_id) ==
    \E g \in DOMAIN folders :
        /\ folders[g].name = name
        /\ folders[g].parent_id = folders[folder_id].parent_id
        /\ g # folder_id

\* the duplicate check of update_folder: same name, same parent, another id
\* (no filter on the owner)
UpdateDuplicateExists(folder_id, name, parent_id) ==
    \E g \in DOMAIN folders :
        /\ folders[g].name = name
        /\ folders[g].parent_id = parent_id
        /\ g # folder_id

\* a plausible bug: the arguments of _is_descendant swapped
MoveCreatesCycleSwapped(folder_id, parent_id) ==
    IsDescendant(folders, parent_id, folder_id)

\* a plausible bug: the circular-reference guard is left out
MoveCreatesCycleUnguarded(folder_id, parent_id) == FALSE

\* the circular-reference guard of update_folder
MoveCreatesCycle(folder_id, parent_id) ==
    IsDescendant(folders, folder_id, parent_id)

\* a plausible bug: the parent is assigned whatever the request carries, so
\* that an absent parent_id moves the folder to the root level
UpdateFolderAssignsNone(user_id, is_admin, folder_id, name, parent_id) ==
    IF folder_id \notin DOMAIN folders
    THEN Raise(HTTP_404_NOT_FOUND, "Folder not found")
    ELSE IF ~CheckFolderAccess(user_id, is_admin, folders[folder_id])
    THEN Raise(HTTP_403_FORBIDDEN, "You don't have permission to update this folder")
    ELSE IF parent_id # NoId /\ parent_id = folder_id
    THEN Raise(HTTP_400_BAD_REQUEST, "Cannot move folder into itself")
    ELSE IF parent_id # NoId /\ MoveCreatesCycle(folder_id, parent_id)
    THEN Raise(HTTP_400_BAD_REQUEST, "Cannot move folder into its own subfolder")
    ELSE LET moved == [folders EXCEPT ![folder_id].parent_id = parent_id]
         IN  IF name # NoName
             THEN IF UpdateDuplicateExists(folder_id, name, parent_id)
                  THEN Raise(HTTP_400_BAD_REQUEST,
                             "A folder with this name already exists in this location")
                  ELSE CommitFolders([moved EXCEPT ![folder_id].name = name])
             ELSE CommitFolders(moved)

\* a plausible bug: the move is committed before the name is checked, so that
\* a request refused for its name has moved the folder
UpdateFolderCommitsMoveFirst(user_id, is_admin, folder_id, name, parent_id) ==
    IF folder_id \notin DOMAIN folders
    THEN Raise(HTTP_404_NOT_FOUND, "Folder not found")
    ELSE IF ~CheckFolderAccess(user_id, is_admin, folders[folder_id])
    THEN Raise(HTTP_403_FORBIDDEN, "You don't have permission to update this folder")
    ELSE IF parent_id # NoId /\ parent_id = folder_id
    THEN Raise(HTTP_400_BAD_REQUEST, "Cannot move folder into itself")
    ELSE IF parent_id # NoId /\ MoveCreatesCycle(folder_id, parent_id)
    THEN Raise(HTTP_400_BAD_REQUEST, "Cannot move folder into its own subfolder")
    ELSE LET moved == IF parent_id # NoId
                      THEN CommitFolders([folders EXCEPT ![folder_id].parent_id = parent_id]).folders
                      ELSE folders
         IN  IF name # NoName
             THEN IF UpdateDuplicateExists(folder_id, name, moved[folder_id].parent_id)
                  THEN Outcome(HTTP_400_BAD_REQUEST,
                               "A folder with this name already exists in this location",
                               moved, files, blobs)
                  ELSE CommitFolders([moved EXCEPT ![folder_id].name = name])
             ELSE CommitFolders(moved)

\* update_folder(folder_id, FolderUpdate(name, parent_id))
UpdateFolderOutcome(user_id, is_admin, folder_id, name, parent_id) ==
    IF folder_id \notin DOMAIN folders
    THEN Raise(HTTP_404_NOT_FOUND, "Folder not found")
    ELSE IF ~CheckFolderAccess(user_id, is_admin, folders[folder_id])
    THEN Raise(HTTP_403_FORBIDDEN, "You don't have permission to update this folder")
    ELSE IF parent_id # NoId /\ parent_id = folder_id
    THEN Raise(HTTP_400_BAD_REQUEST, "Cannot move folder into itself")
    ELSE IF parent_id # NoId /\ MoveCreatesCycle(folder_id, parent_id)
    THEN Raise(HTTP_400_BAD_REQUEST, "Cannot move folder into its own subfolder")
    ELSE LET moved == IF parent_id # NoId
                      THEN [folders EXCEPT ![folder_id].parent_id = parent_id]
                      ELSE folders
             new_parent == IF parent_id # NoId THEN parent_id
                           ELSE folders[folder_id].parent_id
         IN  IF name # NoName
             THEN IF UpdateDuplicateExists(folder_id, name, new_parent)
                  THEN Raise(HTTP_400_BAD_REQUEST,
                             "A folder with this name already exists in this location")
                  ELSE CommitFolders([moved EXCEPT ![folder_id].name = name])
             ELSE CommitFolders(moved)

\* get_folder(folder_id)
GetFolderOutcome(user_id, is_admin, folder_id) ==
    IF folder_id \notin DOMAIN folders
    THEN Raise(HTTP_404_NOT_FOUND, "Folder not found")
    ELSE IF ~CheckFolderAccess(user_id, is_admin, folders[folder_id])
    THEN Raise(HTTP_403_FORBIDDEN, "You don't have permission to view this folder")
    ELSE Raise(HTTP_200_OK, "ok")

\* get_folder_contents(folder_id): the status; NoId is the root view
GetFolderContentsOutcome(user_id, is_admin, folder_id) ==
    IF folder_id # NoId /\ folder_id \notin DOMAIN folders
    THEN Raise(HTTP_404_NOT_FOUND, "Folder not found")
    ELSE IF folder_id # NoId /\ ~CheckFolderAccess(user_id, is_admin, folders[folder_id])
    THEN Raise(HTTP_403_FORBIDDEN, "You don't have permission to view this folder")
    ELSE Raise(HTTP_200_OK, "ok")

\* the response of get_breadcrumbs: a status and the list it returns
Crumbs(status, detail, path) ==
    [status |-> status, detail |-> detail, path |-> path,
     folders |-> folders, files |-> files, blobs |-> blobs]

\* FolderBreadcrumb(id=folder.id, name=folder.name)
FolderBreadcrumb(fo, id) == [id |-> id, name |-> fo[id].name]

\* a plausible bug: breadcrumbs.append(...) for breadcrumbs.insert(0, ...)
CrumbAppended(breadcrumbs, crumb) == Append(breadcrumbs, crumb)

\* get_breadcrumbs, line 267: breadcrumbs.insert(0, ...)
CrumbInserted(breadcrumbs, crumb) == <<crumb>> \o breadcrumbs

\* a plausible bug: a folder of another user ends the walk like a missing one
RECURSIVE BreadcrumbsWalkTruncating(_, _, _, _, _, _)
BreadcrumbsWalkTruncating(fo, user_id, is_admin, current_id, breadcrumbs, fuel) ==
    IF fuel = 0 \/ current_id = NoId \/ current_id \notin DOMAIN fo
    THEN Crumbs(HTTP_200_OK, "ok", breadcrumbs)
    ELSE IF ~is_admin /\ fo[current_id].created_by # user_id
    THEN Crumbs(HTTP_200_OK, "ok", breadcrumbs)
    ELSE BreadcrumbsWalkTruncating(fo, user_id, is_admin, fo[current_id].parent_id,
                                   CrumbInserted(breadcrumbs, FolderBreadcrumb(fo, current_id)),
                                   fuel - 1)

\* get_breadcrumbs, lines 257-268: the while loop, from current_id on; fuel
\* bounds the walk (on a forest it is never used up)
RECURSIVE BreadcrumbsWalk(_, _, _, _, _, _)
BreadcrumbsWalk(fo, user_id, is_admin, current_id, breadcrumbs, fuel) ==
    IF fuel = 0 \/ current_id = NoId \/ current_id \notin DOMAIN fo
    THEN Crumbs(HTTP_200_OK, "ok", breadcrumbs)
    ELSE IF ~is_admin /\ fo[current_id].created_by # user_id
    THEN Crumbs(HTTP_403_FORBIDDEN, "You don't have permission to access this folder", <<>>)
    ELSE BreadcrumbsWalk(fo, user_id, is_admin, fo[current_id].parent_id,
                         CrumbInserted(breadcrumbs, FolderBreadcrumb(fo, current_id)),
                         fuel - 1)

\* get_breadcrumbs(folder_id)
GetBreadcrumbsOutcome(user_id, is_admin, folder_id) ==
    BreadcrumbsWalk(folders, user_id, is_admin, folder_id, <<>>,
                    Cardinality(DOMAIN folders) + 1)

----------------------------------------------------------------------------
(* Blob store: services/storage_service.py *)

\* upload_file(content, storage_key, content_type), when the backend accepts it
StoragePut(bl, storage_key) == bl \cup {storage_key}

\* delete_file(storage_key), when the backend accepts it: an absent object is
\* no error
StorageDelete(bl, storage_key) == bl \ {storage_key}

----------------------------------------------------------------------------
(* Recursive delete: services/folder_service.py *)

\* all orders of a finite set, as sequences (a query without ORDER BY)
Perms(S) ==
    {p \in [1..Cardinality(S) -> S] : \A i, j \in 1..Cardinality(S) : i # j => p[i] # p[j]}

\* db.query(File).filter(File.folder_id == folder.id).all()
FilesIn(fi, folder_id) == {f \in DOMAIN fi : fi[f].folder_id = folder_id}

\* one element of each set of a sequence of sets of sequences, concatenated
RECURSIVE ConcatChoices(_)
ConcatChoices(sets) ==
    IF sets = <<>> THEN {<<>>}
    ELSE {h \o t : h \in Head(sets), t \in ConcatChoices(Tail(sets))}

\* a plausible bug: the files of the subfolders are not deleted
ContentsOrdersDirectFiles(fo, fi, folder_id, fuel) == Perms(FilesIn(fi, folder_id))

\* _delete_folder_contents(folder): the orders in which it can reach the files
\* (the files of the folder first, then subfolder by subfolder)
RECURSIVE ContentsOrders(_, _, _, _)
ContentsOrders(fo, fi, folder_id, fuel) ==
    IF fuel = 0 THEN {<<>>}
    ELSE {fp \o sp :
            fp \in Perms(FilesIn(fi, folder_id)),
            sp \in UNION {ConcatChoices([i \in 1..Len(q) |->
                                            ContentsOrders(fo, fi, q[i], fuel - 1)]) :
                            q \in Perms(ChildrenOf(fo, folder_id))}}

\* the folders _delete_folder_contents(folder) marks deleted (all below folder)
RECURSIVE SubfoldersRec(_, _, _)
SubfoldersRec(fo, folder_id, fuel) ==
    IF fuel = 0 THEN {}
    ELSE LET subs == ChildrenOf(fo, folder_id)
         IN  subs \cup UNION {SubfoldersRec(fo, d, fuel - 1) : d \in subs}

Subfolders(fo, folder_id) == SubfoldersRec(fo, folder_id, Cardinality(DOMAIN fo) + 1)

Restrict(f, S) == [x \in S |-> f[x]]

\* a plausible bug: the slug column declared without unique=True
FileConstraintsWithoutUniqueSlug(fo, fi) ==
    /\ \A f, g \in DOMAIN fi : f # g => fi[f].storage_key # fi[g].storage_key
    /\ \A f \in DOMAIN fi : fi[f].folder_id = NoId \/ fi[f].folder_id \in DOMAIN fo

\* db.commit() of the files table: files.slug and files.storage_key are UNIQUE,
\* files.folder_id references folders.id
FileConstraintsHold(fo, fi) ==
    /\ \A f, g \in DOMAIN fi :
            f # g => /\ fi[f].storage_key # fi[g].storage_key
                     /\ (fi[f].slug # NoSlug => fi[f].slug # fi[g].slug)
    /\ \A f \in DOMAIN fi : fi[f].folder_id = NoId \/ fi[f].folder_id \in DOMAIN fo

\* db.commit() after writes to both tables; bl is the blob store as the
\* request left it before the commit
Commit(fo, fi, bl) ==
    IF FolderForeignKeysHold(fo) /\ FileConstraintsHold(fo, fi)
    THEN Outcome(HTTP_200_OK, "ok", fo, fi, bl)
    ELSE Outcome(HTTP_500_INTERNAL_SERVER_ERROR, "IntegrityError", folders, files, bl)

\* a plausible bug: only the files are looked for, not the subfolders
HasFilesOnly(folder_id) == FilesIn(files, folder_id) # {}

\* delete_folder, lines 223-225: has_files or has_subfolders
HasContents(folder_id) ==
    FilesIn(files, folder_id) # {} \/ ChildrenOf(folders, folder_id) # {}

\* a plausible bug: the deletion of each file record is committed as the
\* traversal goes, so that a traversal that fails has removed the records
\* it had handled
DeleteFolderCommitsEachFile(user_id, is_admin, folder_id, recursive, order, fail_at) ==
    IF folder_id \notin DOMAIN folders
    THEN Raise(HTTP_404_NOT_FOUND, "Folder not found")
    ELSE IF ~CheckFolderAccess(user_id, is_admin, folders[folder_id])
    THEN Raise(HTTP_403_FORBIDDEN, "You don't have permission to delete this folder")
    ELSE IF recursive
    THEN LET reached == IF fail_at = 0 THEN Len(order) ELSE fail_at - 1
             gone_keys == {files[order[i]].storage_key : i \in 1..reached}
             gone_files == {order[i] : i \in 1..reached}
             gone_folders == Subfolders(folders, folder_id) \cup {folder_id}
         IN  IF fail_at # 0
             THEN Outcome(HTTP_500_INTERNAL_SERVER_ERROR, "Failed to delete file",
                          folders, Restrict(files, DOMAIN files \ gone_files),
                          blobs \ gone_keys)
             ELSE Commit(Restrict(folders, DOMAIN folders \ gone_folders),
                         Restrict(files, DOMAIN files \ gone_files),
                         blobs \ gone_keys)
    ELSE IF HasContents(folder_id)
    THEN Raise(HTTP_400_BAD_REQUEST,
               "Folder is not empty. Use recursive=true to delete contents.")
    ELSE Commit(Restrict(folders, DOMAIN folders \ {folder_id}), files, blobs)

\* delete_folder(folder_id, recursive).  order is the order in which the
\* traversal reaches the files; fail_at = k > 0 makes the k-th blob deletion
\* raise, fail_at = 0 none.
DeleteFolderOutcome(user_id, is_admin, folder_id, recursive, order, fail_at) ==
    IF folder_id \notin DOMAIN folders
    THEN Raise(HTTP_404_NOT_FOUND, "Folder not found")
    ELSE IF ~CheckFolderAccess(user_id, is_admin, folders[folder_id])
    THEN Raise(HTTP_403_FORBIDDEN, "You don't have permission to delete this folder")
    ELSE IF recursive
    THEN LET reached == IF fail_at = 0 THEN Len(order) ELSE fail_at - 1
             gone_keys == {files[order[i]].storage_key : i \in 1..reached}
             gone_files == {order[i] : i \in 1..Len(order)}
             gone_folders == Subfolders(folders, folder_id) \cup {folder_id}
         IN  IF fail_at # 0
             THEN Outcome(HTTP_500_INTERNAL_SERVER_ERROR, "Failed to delete file",
                          folders, files, blobs \ gone_keys)
             ELSE Commit(Restrict(folders, DOMAIN folders \ gone_folders),
                         Restrict(files, DOMAIN files \ gone_files),
                         blobs \ gone_keys)
    ELSE IF HasContents(folder_id)
    THEN Raise(HTTP_400_BAD_REQUEST,
               "Folder is not empty. Use recursive=true to delete contents.")
    ELSE Commit(Restrict(folders, DOMAIN folders \ {folder_id}), files, blobs)

\* the traversal orders delete_folder can take on the current tables
DeleteOrders(folder_id, recursive) ==
    IF recursive /\ folder_id \in DOMAIN folders
    THEN ContentsOrders(folders, files, folder_id, Cardinality(DOMAIN folders) + 1)
    ELSE {<<>>}

----------------------------------------------------------------------------
(* Listings: get_folder_contents, list_folders and get_folder_tree in
   services/folder_service.py, list_files in services/file_service.py *)

\* the place of a text in the collation of ORDER BY, on the texts the model
\* draws
TextRank(text) ==
    CASE text = "a" -> 1
      [] text = "b" -> 2
      [] text = "report.pdf" -> 3
      [] OTHER -> 0

\* a plausible bug: the query has no order_by
Unordered(S, rank) == Perms(S)

\* query.order_by(column).all(): the rows of S in ascending rank; rows of
\* equal rank come in any order
OrderedBy(S, rank) ==
    {p \in Perms(S) : \A i, j \in 1..Cardinality(S) : i < j => rank[p[i]] <= rank[p[j]]}

\* a plausible bug: the filter on the owner left out
FoldersOfAnyone(fo, user_id, is_admin) == DOMAIN fo

\* db.query(Folder), and for a non-admin .filter(Folder.created_by == user_id)
FoldersSeenBy(fo, user_id, is_admin) ==
    {d \in DOMAIN fo : is_admin \/ fo[d].created_by = user_id}

\* db.query(File), and for a non-admin .filter(File.uploaded_by == user_id)
FilesSeenBy(fi, user_id, is_admin) ==
    {f \in DOMAIN fi : is_admin \/ fi[f].uploaded_by = user_id}

\* folder_query.filter(Folder.parent_id == parent_id).order_by(Folder.name).all()
SubfolderRows(fo, user_id, is_admin, parent_id) ==
    OrderedBy(FoldersSeenBy(fo, user_id, is_admin) \cap ChildrenOf(fo, parent_id),
              [d \in DOMAIN fo |-> TextRank(fo[d].name)])

\* file_query.filter(File.folder_id == folder_id).order_by(File.original_name).all()
FileRows(fi, user_id, is_admin, folder_id) ==
    OrderedBy(FilesSeenBy(fi, user_id, is_admin) \cap FilesIn(fi, folder_id),
              [f \in DOMAIN fi |-> TextRank(fi[f].original_name)])

\* get_folder_contents(folder_id), lines 104-138: the responses it can return
\* when it raises nothing, as the ids of the subfolders and of the files
FolderContents(user_id, is_admin, folder_id) ==
    {[subfolders |-> sf, files |-> fs] :
        sf \in SubfolderRows(folders, user_id, is_admin, folder_id),
        fs \in FileRows(files, user_id, is_admin, folder_id)}

\* list_folders(parent_id): the lists it can return
ListFolders(user_id, is_admin, parent_id) ==
    SubfolderRows(folders, user_id, is_admin, parent_id)

\* _build_tree_node(folder): the nodes it can return; fuel stands for the
\* interpreter's recursion limit (never reached on a forest)
RECURSIVE BuildTreeNode(_, _, _, _, _)
BuildTreeNode(fo, user_id, is_admin, folder_id, fuel) ==
    IF fuel = 0 THEN {}
    ELSE {[id |-> folder_id, name |-> fo[folder_id].name, children |-> ch] :
            ch \in UNION {ConcatChoices([i \in 1..Len(q) |->
                            {<<n>> : n \in BuildTreeNode(fo, user_id, is_admin, q[i], fuel - 1)}]) :
                          q \in SubfolderRows(fo, user_id, is_admin, folder_id)}}

\* get_folder_tree(): the forests it can return
GetFolderTree(user_id, is_admin) ==
    UNION {ConcatChoices([i \in 1..Len(q) |->
                {<<n>> : n \in BuildTreeNode(folders, user_id, is_admin, q[i],
                                             Cardinality(DOMAIN folders) + 1)}]) :
           q \in SubfolderRows(folders, user_id, is_admin, NoId)}

\* list_files, lines 198-230, with search and tags not given: the rows the
\* query selects; file_type is NoText and is_public "None" when not given;
\* folder_id None adds no filter
ListFilesQuery(fi, user_id, is_admin, file_type, is_public, folder_id) ==
    {f \in DOMAIN fi :
        /\ (~is_admin /\ user_id # NoId) => fi[f].uploaded_by = user_id
        /\ (file_type # NoText /\ file_type # "") => fi[f].file_type = file_type
        /\ is_public # "None" => fi[f].is_public = (is_public = "True")
        /\ folder_id # NoId => fi[f].folder_id = folder_id}

\* .offset(offset).limit(per_page) on a list
PageOf(rows, page, per_page) ==
    SubSeq(rows, (page - 1) * per_page + 1,
           IF page * per_page < Len(rows) THEN page * per_page ELSE Len(rows))

\* list_files(page, per_page, file_type, is_public, ..., folder_id, user_id,
\* is_admin): the (files, total) it can return; created_at descends as the
\* ids of the model do
ListFiles(user_id, is_admin, page, per_page, file_type, is_public, folder_id) ==
    LET rows == ListFilesQuery(files, user_id, is_admin, file_type, is_public, folder_id)
    IN  {[files |-> PageOf(q, page, per_page), total |-> Cardinality(rows)] :
            q \in OrderedBy(rows, [f \in DOMAIN files |-> 0 - f])}

----------------------------------------------------------------------------
(* Slug allocator: generate_slug in services/file_service.py *)

\* the random 4-character suffix
Suffixes == {"a7b3", "c9d1"}
\* what the upload form and the update request may carry
Filenames == {"report.pdf"}
CustomNames == {"My Report"}
Descriptions == {"d"}

\* name.lower(), the three re.sub, strip('-'), the cut to 30 characters: on the
\* names the model draws
CleanName(name) ==
    CASE name = "My Report" -> "my-report"
      [] name = "report" -> "report"
      [] OTHER -> ""

\* original_name.rsplit('.', 1)[0]
BaseName(original_name) ==
    CASE original_name = "report.pdf" -> "report"
      [] OTHER -> original_name

\* generate_slug(name, style): the values one call can return, as
\* <<stem, suffix>> for f"{stem}-{suffix}"
GenerateSlug(name, style) ==
    IF style = "readable" \/ name = NoText \/ name = ""
    THEN {<<"swift-star", s>> : s \in Suffixes}
    ELSE IF style = "short"
    THEN {<<p, s>> : p \in Suffixes, s \in Suffixes}
    ELSE {<<(IF CleanName(name) # "" THEN CleanName(name) ELSE "file"), s>> :
            s \in Suffixes}

\* db.query(File).filter(File.slug == slug).first() is not None
SlugTaken(fi, slug) == \E f \in DOMAIN fi : fi[f].slug = slug

----------------------------------------------------------------------------
(* File type detection: detect_file_type in services/file_service.py *)

\* the content types and filenames an upload of the model may carry
ContentTypes == {"image/png", "video/mp4", "audio/mpeg", "application/pdf", "application/zip", "application/octet-stream", NoText}
TypedFilenames == {"photo.jpg", "PHOTO.JPG", "clip.mp4", "song.mp3", "report.pdf", "backup.zip", "README"}

\* str.lower(), on the texts the model draws
Lower(text) == IF text = "PHOTO.JPG" THEN "photo.jpg" ELSE text

\* the prefix of a content type up to and including its "/", on the content
\* types the model draws: content_type.startswith(p) iff PrefixOf(content_type) = p
PrefixOf(content_type) ==
    CASE content_type = "image/png" -> "image/"
      [] content_type = "video/mp4" -> "video/"
      [] content_type = "audio/mpeg" -> "audio/"
      [] content_type \in {"application/pdf", "application/zip", "application/octet-stream"} -> "application/"
      [] OTHER -> ""

\* the ending of a lower-case filename from its last ".", on the filenames
\* the model draws: filename.endswith(ext) iff EndingOf(filename) = ext
EndingOf(filename) ==
    CASE filename = "photo.jpg" -> ".jpg"
      [] filename = "clip.mp4" -> ".mp4"
      [] filename = "song.mp3" -> ".mp3"
      [] filename = "report.pdf" -> ".pdf"
      [] filename = "backup.zip" -> ".zip"
      [] OTHER -> ""

\* the words detect_file_type looks for that occur in a content type, on the
\* content types the model draws: word in content_type iff word \in WordsIn(content_type)
WordsIn(content_type) ==
    CASE content_type = "application/pdf" -> {"pdf"}
      [] content_type = "application/zip" -> {"zip"}
      [] OTHER -> {}

\* the extension lists of detect_file_type
ImageExtensions == {".jpg", ".jpeg", ".png", ".gif", ".webp", ".svg", ".bmp", ".ico"}
VideoExtensions == {".mp4", ".avi", ".mov", ".mkv", ".webm", ".flv"}
AudioExtensions == {".mp3", ".wav", ".ogg", ".flac", ".aac", ".m4a"}
DocumentExtensions == {".pdf", ".doc", ".docx", ".xls", ".xlsx", ".ppt", ".pptx", ".txt", ".rtf", ".odt", ".ods", ".odp", ".csv", ".md"}
ArchiveExtensions == {".zip", ".rar", ".7z", ".tar", ".gz", ".bz2"}
DocumentWords == {"pdf", "document", "spreadsheet", "presentation"}
ArchiveWords == {"zip", "compressed", "archive"}

\* detect_file_type(content_type, filename)
DetectFileType(content_type, filename) ==
    LET ct == IF content_type = NoText \/ content_type = "" THEN "" ELSE Lower(content_type)
        fn == Lower(filename)
    IN  IF PrefixOf(ct) = "image/" \/ EndingOf(fn) \in ImageExtensions THEN "image"
        ELSE IF PrefixOf(ct) = "video/" \/ EndingOf(fn) \in VideoExtensions THEN "video"
        ELSE IF PrefixOf(ct) = "audio/" \/ EndingOf(fn) \in AudioExtensions THEN "audio"
        ELSE IF EndingOf(fn) \in DocumentExtensions THEN "document"
        ELSE IF WordsIn(ct) \cap DocumentWords # {} THEN "document"
        ELSE IF EndingOf(fn) \in ArchiveExtensions THEN "archive"
        ELSE IF WordsIn(ct) \cap ArchiveWords # {} THEN "archive"
        ELSE "other"

\* upload_file, line 155: file_type if file_type else detect_file_type(...)
DetectedType(file_type, content_type, filename) ==
    IF file_type # NoText /\ file_type # "" THEN file_type
    ELSE DetectFileType(content_type, filename)

----------------------------------------------------------------------------
(* File registry: services/file_service.py *)

\* upload_file, lines 138-152: the slugs the allocation loop can end with on
\* the table it reads (none: the loop does not end)
UploadSlugs(fi, is_public, custom_name) ==
    IF is_public
    THEN {s \in GenerateSlug(custom_name,
                             IF custom_name # NoText /\ custom_name # ""
                             THEN "named" ELSE "readable") : ~SlugTaken(fi, s)}
    ELSE {NoSlug}

\* upload_file, lines 122-129: the folder check; TRUE iff no 404 is raised
UploadFolderFound(fo, folder_id) == folder_id = NoId \/ folder_id \in DOMAIN fo

\* a plausible bug: the key is made of the filename alone, without the uuid
\* (Filenames holds one name)
GenerateStorageKeyFromName(unique_id, original_filename) == 1

\* generate_storage_key(original_filename): "{prefix}/files/{uuid4}-{name}";
\* unique_id is the uuid4, and the model keeps of a key the part that tells
\* two keys apart
GenerateStorageKey(unique_id, original_filename) == unique_id

\* upload_file, lines 165-177: the File object of the new record
NewFile(user_id, is_public, filename, description, file_type, tags, folder_id, slug, key) ==
    [original_name |-> filename,
     slug |-> slug,
     storage_key |-> GenerateStorageKey(key, filename),
     is_public |-> is_public,
     description |-> description,
     file_type |-> file_type,
     tags |-> tags,
     folder_id |-> folder_id,
     uploaded_by |-> user_id]

\* a plausible bug: the record is inserted and committed before the blob is
\* written
UploadWriteRecordFirst(user_id, is_public, filename, description, file_type, tags, folder_id, slug, key, put_ok) ==
    LET c == Commit(folders,
                    (key :> NewFile(user_id, is_public, filename, description,
                                    file_type, tags, folder_id, slug, key)) @@ files,
                    blobs)
    IN  IF c.status # HTTP_200_OK THEN c
        ELSE IF ~put_ok
        THEN Outcome(HTTP_500_INTERNAL_SERVER_ERROR, "Failed to upload file",
                     c.folders, c.files, blobs)
        ELSE Outcome(c.status, c.detail, c.folders, c.files,
                     StoragePut(blobs, GenerateStorageKey(key, filename)))

\* upload_file, lines 157-183: the blob write and the INSERT, for the slug
\* the loop ended with; put_ok = FALSE is an exception of the blob store
UploadWrite(user_id, is_public, filename, description, file_type, tags, folder_id, slug, key, put_ok) ==
    IF ~put_ok
    THEN Raise(HTTP_500_INTERNAL_SERVER_ERROR, "Failed to upload file")
    ELSE Commit(folders,
                (key :> NewFile(user_id, is_public, filename, description,
                                file_type, tags, folder_id, slug, key)) @@ files,
                StoragePut(blobs, GenerateStorageKey(key, filename)))

\* upload_file(file, is_public, user_id, ..., folder_id); key is the uuid4 of
\* generate_storage_key (and the id of the new record)
UploadFileOutcome(user_id, is_public, filename, description, file_type, tags, folder_id, slug, key, put_ok) ==
    IF ~UploadFolderFound(folders, folder_id)
    THEN Raise(HTTP_404_NOT_FOUND, "Folder not found")
    ELSE UploadWrite(user_id, is_public, filename, description, file_type, tags,
                     folder_id, slug, key, put_ok)

\* the owner check of the file methods; TRUE iff no 403 is raised
CheckFileAccess(user_id, is_admin, db_file) ==
    ~(~is_admin /\ db_file.uploaded_by # user_id)

\* get_file_by_id(file_id, user_id, is_admin)
GetFileOutcome(user_id, is_admin, file_id) ==
    IF file_id \notin DOMAIN files
    THEN Raise(HTTP_404_NOT_FOUND, "File not found")
    ELSE IF ~CheckFileAccess(user_id, is_admin, files[file_id])
    THEN Raise(HTTP_403_FORBIDDEN, "You don't have permission to view this file")
    ELSE Raise(HTTP_200_OK, "ok")

\* get_file_record_by_id(file_id, user_id, is_admin)
GetFileRecordOutcome(user_id, is_admin, file_id) ==
    IF file_id \notin DOMAIN files
    THEN Raise(HTTP_404_NOT_FOUND, "File not found")
    ELSE IF ~CheckFileAccess(user_id, is_admin, files[file_id])
    THEN Raise(HTTP_403_FORBIDDEN, "You don't have permission to access this file")
    ELSE Raise(HTTP_200_OK, "ok")

\* get_file_by_slug(slug): db.query(File).filter(File.slug == slug).first();
\* the records the query finds (none: 404 "File not found")
GetFileBySlug(fi, slug) == {f \in DOMAIN fi : fi[f].slug = slug}

\* what the public route answers: the response and the content it releases
\* (the storage keys whose object is in the body)
PublicResponse(status, detail, content) ==
    [status |-> status, detail |-> detail, content |-> content]

\* a plausible bug: the route serves whatever record the slug resolves to
ServePublicFileUnchecked(file_record, bl) ==
    IF file_record.storage_key \notin bl
    THEN PublicResponse(HTTP_404_NOT_FOUND, "File not found in storage", {})
    ELSE PublicResponse(HTTP_200_OK, "ok", {file_record.storage_key})

\* get_public_file, api/public.py lines 24-40, for the record the slug
\* resolved to; storage_service.get_file raises 404 for a key without object
ServePublicFile(file_record, bl) ==
    IF ~file_record.is_public
    THEN PublicResponse(HTTP_403_FORBIDDEN, "This file is not publicly accessible", {})
    ELSE IF file_record.storage_key \notin bl
    THEN PublicResponse(HTTP_404_NOT_FOUND, "File not found in storage", {})
    ELSE PublicResponse(HTTP_200_OK, "ok", {file_record.storage_key})

\* get_public_file(slug), api/public.py lines 12-40, on tables fi and blob
\* store bl: no authentication, no actor
GetPublicFileResponse(fi, bl, slug) ==
    IF GetFileBySlug(fi, slug) = {}
    THEN PublicResponse(HTTP_404_NOT_FOUND, "File not found", {})
    ELSE ServePublicFile(fi[CHOOSE f \in GetFileBySlug(fi, slug) : TRUE], bl)

\* a plausible bug: the owner of the target folder is not checked (as in
\* upload_file)
MoveFileUncheckedTarget(user_id, is_admin, file_id, folder_id) ==
    IF file_id \notin DOMAIN files
    THEN Raise(HTTP_404_NOT_FOUND, "File not found")
    ELSE IF ~CheckFileAccess(user_id, is_admin, files[file_id])
    THEN Raise(HTTP_403_FORBIDDEN, "You don't have permission to move this file")
    ELSE IF folder_id # NoId /\ folder_id \notin DOMAIN folders
    THEN Raise(HTTP_404_NOT_FOUND, "Target folder not found")
    ELSE Commit(folders, [files EXCEPT ![file_id].folder_id = folder_id], blobs)

\* a plausible bug: the file moved becomes the file of the actor who moved it
MoveFileTakesOwnership(user_id, is_admin, file_id, folder_id) ==
    IF file_id \notin DOMAIN files
    THEN Raise(HTTP_404_NOT_FOUND, "File not found")
    ELSE IF ~CheckFileAccess(user_id, is_admin, files[file_id])
    THEN Raise(HTTP_403_FORBIDDEN, "You don't have permission to move this file")
    ELSE IF folder_id # NoId /\ folder_id \notin DOMAIN folders
    THEN Raise(HTTP_404_NOT_FOUND, "Target folder not found")
    ELSE IF folder_id # NoId /\ ~is_admin /\ folders[folder_id].created_by # user_id
    THEN Raise(HTTP_403_FORBIDDEN, "You don't have permission to move files to this folder")
    ELSE Commit(folders,
                [files EXCEPT ![file_id].folder_id = folder_id,
                              ![file_id].uploaded_by = user_id],
                blobs)

\* move_file(file_id, folder_id, user_id, is_admin)
MoveFileOutcome(user_id, is_admin, file_id, folder_id) ==
    IF file_id \notin DOMAIN files
    THEN Raise(HTTP_404_NOT_FOUND, "File not found")
    ELSE IF ~CheckFileAccess(user_id, is_admin, files[file_id])
    THEN Raise(HTTP_403_FORBIDDEN, "You don't have permission to move this file")
    ELSE IF folder_id # NoId /\ folder_id \notin DOMAIN folders
    THEN Raise(HTTP_404_NOT_FOUND, "Target folder not found")
    ELSE IF folder_id # NoId /\ ~is_admin /\ folders[folder_id].created_by # user_id
    THEN Raise(HTTP_403_FORBIDDEN, "You don't have permission to move files to this folder")
    ELSE Commit(folders, [files EXCEPT ![file_id].folder_id = folder_id], blobs)

\* "if x is not None: db_file.x = x" for description, tags and file_type
WithMetadata(db_file, description, tags, file_type) ==
    [db_file EXCEPT
        !.description = IF description # NoText THEN description ELSE @,
        !.tags = IF tags # NoText THEN tags ELSE @,
        !.file_type = IF file_type # NoText THEN file_type ELSE @]

\* update_file(file_id, description, tags, file_type, user_id, is_admin)
UpdateFileOutcome(user_id, is_admin, file_id, description, tags, file_type) ==
    IF file_id \notin DOMAIN files
    THEN Raise(HTTP_404_NOT_FOUND, "File not found")
    ELSE IF ~CheckFileAccess(user_id, is_admin, files[file_id])
    THEN Raise(HTTP_403_FORBIDDEN, "You don't have permission to update this file")
    ELSE Commit(folders,
                [files EXCEPT ![file_id] = WithMetadata(@, description, tags, file_type)],
                blobs)

\* update_file_visibility, lines 424-436: the slugs the allocation loop can end
\* with when the file is made public
VisibilitySlugs(fi, db_file, custom_name) ==
    {s \in GenerateSlug(IF custom_name # NoText /\ custom_name # ""
                        THEN custom_name ELSE BaseName(db_file.original_name),
                        "readable") : ~SlugTaken(fi, s)}

\* a plausible bug: making a file private keeps its slug
MakePrivateKeepsSlug(db_file) == [db_file EXCEPT !.is_public = FALSE]

\* update_file_visibility, lines 437-440
MakePrivate(db_file) == [db_file EXCEPT !.slug = NoSlug, !.is_public = FALSE]

\* update_file_visibility, lines 435-436
MakePublic(db_file, slug) == [db_file EXCEPT !.slug = slug, !.is_public = TRUE]

\* a plausible bug: the transition is made whatever the file's visibility is
VisibilityChangeUnconditional(db_file, is_public, description, tags, file_type, slug) ==
    WithMetadata(
        IF is_public = "True" THEN MakePublic(db_file, slug)
        ELSE IF is_public = "False" THEN MakePrivate(db_file)
        ELSE db_file,
        description, tags, file_type)

\* update_file_visibility, lines 424-448: the record as the request leaves it
\* in its session; is_public is "None", "True" or "False"; slug is the slug
\* the loop ended with (used only when the file is made public)
VisibilityChange(db_file, is_public, description, tags, file_type, slug) ==
    WithMetadata(
        IF is_public = "True" /\ ~db_file.is_public THEN MakePublic(db_file, slug)
        ELSE IF is_public = "False" /\ db_file.is_public THEN MakePrivate(db_file)
        ELSE db_file,
        description, tags, file_type)

\* update_file_visibility, lines 450-451: db.commit() and db.refresh().  loaded
\* is the record as the request read it, row the record as the request leaves
\* it; the UPDATE sets the columns the request changed, on the row as it is
\* now; a row deleted in between fails the flush or the refresh
VisibilityWrite(file_id, loaded, row) ==
    IF file_id \notin DOMAIN files
    THEN Raise(HTTP_500_INTERNAL_SERVER_ERROR, "Internal Server Error")
    ELSE LET cur == files[file_id]
             new == [c \in DOMAIN cur |-> IF row[c] # loaded[c] THEN row[c] ELSE cur[c]]
         IN  Commit(folders, [files EXCEPT ![file_id] = new], blobs)

\* update_file_visibility(file_id, is_public, ..., custom_name, user_id, is_admin)
UpdateFileVisibilityOutcome(user_id, is_admin, file_id, is_public, description, tags, file_type, slug) ==
    IF file_id \notin DOMAIN files
    THEN Raise(HTTP_404_NOT_FOUND, "File not found")
    ELSE IF ~CheckFileAccess(user_id, is_admin, files[file_id])
    THEN Raise(HTTP_403_FORBIDDEN, "You don't have permission to update this file")
    ELSE VisibilityWrite(file_id, files[file_id],
                         VisibilityChange(files[file_id], is_public, description,
                                          tags, file_type, slug))

\* the slugs a visibility request can carry to its write
VisibilitySlugChoices(file_id, is_public, custom_name) ==
    IF file_id \in DOMAIN files /\ is_public = "True" /\ ~files[file_id].is_public
    THEN VisibilitySlugs(files, files[file_id], custom_name)
    ELSE {NoSlug}

\* a plausible bug: the record is deleted and committed before the blob
DeleteFileRecordFirst(user_id, is_admin, file_id, del_ok) ==
    IF file_id \notin DOMAIN files
    THEN Raise(HTTP_404_NOT_FOUND, "File not found")
    ELSE IF ~CheckFileAccess(user_id, is_admin, files[file_id])
    THEN Raise(HTTP_403_FORBIDDEN, "You don't have permission to delete this file")
    ELSE LET c == Commit(folders, Restrict(files, DOMAIN files \ {file_id}), blobs)
         IN  IF ~del_ok
             THEN Outcome(HTTP_500_INTERNAL_SERVER_ERROR, "Failed to delete file",
                          c.folders, c.files, blobs)
             ELSE Outcome(c.status, c.detail, c.folders, c.files,
                          StorageDelete(blobs, files[file_id].storage_key))

\* a plausible bug: a blob that is not in the store makes the deletion fail
DeleteFileNeedsBlob(user_id, is_admin, file_id, del_ok) ==
    IF file_id \notin DOMAIN files
    THEN Raise(HTTP_404_NOT_FOUND, "File not found")
    ELSE IF ~CheckFileAccess(user_id, is_admin, files[file_id])
    THEN Raise(HTTP_403_FORBIDDEN, "You don't have permission to delete this file")
    ELSE IF ~del_ok \/ files[file_id].storage_key \notin blobs
    THEN Raise(HTTP_500_INTERNAL_SERVER_ERROR, "Failed to delete file")
    ELSE Commit(folders,
                Restrict(files, DOMAIN files \ {file_id}),
                StorageDelete(blobs, files[file_id].storage_key))

\* delete_file(file_id, user_id, is_admin); del_ok = FALSE is an exception of
\* the blob store
DeleteFileOutcome(user_id, is_admin, file_id, del_ok) ==
    IF file_id \notin DOMAIN files
    THEN Raise(HTTP_404_NOT_FOUND, "File not found")
    ELSE IF ~CheckFileAccess(user_id, is_admin, files[file_id])
    THEN Raise(HTTP_403_FORBIDDEN, "You don't have permission to delete this file")
    ELSE IF ~del_ok
    THEN Raise(HTTP_500_INTERNAL_SERVER_ERROR, "Failed to delete file")
    ELSE Commit(folders,
                Restrict(files, DOMAIN files \ {file_id}),
                StorageDelete(blobs, files[file_id].storage_key))

----------------------------------------------------------------------------
(* Actions of the folder tree *)

\* the request ends: what it committed, and what it did to the blob store,
\* becomes the state (a request that raised leaves the tables as they were)
Done(r) ==
    /\ folders' = r.folders
    /\ files' = r.files
    /\ blobs' = r.blobs

ActorsOf(ids) == {a \in Actors : a.id \in ids}

CreateFolder(actors, names, cap) ==
    \E actor \in actors, name \in names, parent_id \in IdsUpTo(cap) \cup {NoId} :
        /\ nextFolder <= cap
        /\ LET r == CreateFolderOutcome(actor.id, actor.admin, name, parent_id)
           IN  /\ Done(r)
               /\ nextFolder' = IF r.status = HTTP_200_OK THEN nextFolder + 1 ELSE nextFolder
        /\ UNCHANGED <<nextFile, reqs>>

UpdateFolder(actors, names, cap) ==
    \E actor \in actors, folder_id \in IdsUpTo(cap),
       name \in names \cup {NoName}, parent_id \in IdsUpTo(cap) \cup {NoId} :
        /\ Done(UpdateFolderOutcome(actor.id, actor.admin, folder_id, name, parent_id))
        /\ UNCHANGED <<nextFolder, nextFile, reqs>>

DeleteFolder(actors, cap) ==
    \E actor \in actors, folder_id \in IdsUpTo(cap), recursive \in BOOLEAN :
        \E order \in DeleteOrders(folder_id, recursive) :
            \E fail_at \in 0..Len(order) :
                /\ Done(DeleteFolderOutcome(actor.id, actor.admin, folder_id,
                                            recursive, order, fail_at))
                /\ UNCHANGED <<nextFolder, nextFile, reqs>>

GetFolder(actors, cap) ==
    \E actor \in actors, folder_id \in IdsUpTo(cap) :
        /\ Done(GetFolderOutcome(actor.id, actor.admin, folder_id))
        /\ UNCHANGED <<nextFolder, nextFile, reqs>>

GetFolderContents(actors, cap) ==
    \E actor \in actors, folder_id \in IdsUpTo(cap) \cup {NoId} :
        /\ Done(GetFolderContentsOutcome(actor.id, actor.admin, folder_id))
        /\ UNCHANGED <<nextFolder, nextFile, reqs>>

GetBreadcrumbs(actors, cap) ==
    \E actor \in actors, folder_id \in IdsUpTo(cap) :
        /\ Done(GetBreadcrumbsOutcome(actor.id, actor.admin, folder_id))
        /\ UNCHANGED <<nextFolder, nextFile, reqs>>

ListFoldersIn(actors, cap) ==
    \E actor \in actors, parent_id \in IdsUpTo(cap) \cup {NoId} :
        \E rows \in ListFolders(actor.id, actor.admin, parent_id) :
            /\ Done(Raise(HTTP_200_OK, "ok"))
            /\ UNCHANGED <<nextFolder, nextFile, reqs>>

ViewFolder(actors, cap) ==
    \E actor \in actors, folder_id \in IdsUpTo(cap) \cup {NoId} :
        LET r == GetFolderContentsOutcome(actor.id, actor.admin, folder_id)
        IN  /\ r.status = HTTP_200_OK =>
                    \E c \in FolderContents(actor.id, actor.admin, folder_id) : TRUE
            /\ Done(r)
            /\ UNCHANGED <<nextFolder, nextFile, reqs>>

FolderTree(actors) ==
    \E actor \in actors :
        \E forest \in GetFolderTree(actor.id, actor.admin) :
            /\ Done(Raise(HTTP_200_OK, "ok"))
            /\ UNCHANGED <<nextFolder, nextFile, reqs>>

Init ==
    /\ folders = <<>>
    /\ files = <<>>
    /\ blobs = {}
    /\ nextFolder = 1
    /\ nextFile = 1
    /\ reqs = <<>>

\* the folder tree alone: an owner and an admin, no files
TreeActors == ActorsOf({1, 3})

NextTree ==
    \/ CreateFolder(TreeActors, Names, MaxFolders)
    \/ UpdateFolder(TreeActors, Names, MaxFolders)
    \/ DeleteFolder(TreeActors, MaxFolders)
    \/ GetBreadcrumbs(TreeActors, MaxFolders)
    \/ ListFoldersIn(TreeActors, MaxFolders)
    \/ FolderTree(TreeActors)

SpecTree == Init /\ [][NextTree]_vars

----------------------------------------------------------------------------
(* Actions of the file registry, one request at a time *)

OptBool == {"None", "True", "False"}

UploadFileWith(actors, publics, custom_names, file_cap, folder_cap) ==
    \E actor \in actors, is_public \in publics, filename \in Filenames,
       custom_name \in custom_names \cup {NoText},
       folder_id \in IdsUpTo(folder_cap) \cup {NoId}, put_ok \in BOOLEAN :
        \E slug \in UploadSlugs(files, is_public, custom_name) :
            /\ nextFile <= file_cap
            /\ LET r == UploadFileOutcome(actor.id, is_public, filename, NoText,
                                          "document", NoText, folder_id, slug,
                                          nextFile, put_ok)
               IN  /\ Done(r)
                   /\ nextFile' = IF nextFile \in r.blobs THEN nextFile + 1 ELSE nextFile
            /\ UNCHANGED <<nextFolder, reqs>>

UploadFile(actors, custom_names, file_cap, folder_cap) ==
    UploadFileWith(actors, BOOLEAN, custom_names, file_cap, folder_cap)

GetFile(actors, file_cap) ==
    \E actor \in actors, file_id \in IdsUpTo(file_cap) :
        /\ Done(GetFileOutcome(actor.id, actor.admin, file_id))
        /\ UNCHANGED <<nextFolder, nextFile, reqs>>

GetFileRecord(actors, file_cap) ==
    \E actor \in actors, file_id \in IdsUpTo(file_cap) :
        /\ Done(GetFileRecordOutcome(actor.id, actor.admin, file_id))
        /\ UNCHANGED <<nextFolder, nextFile, reqs>>

MoveFile(actors, file_cap, folder_cap) ==
    \E actor \in actors, file_id \in IdsUpTo(file_cap),
       folder_id \in IdsUpTo(folder_cap) \cup {NoId} :
        /\ Done(MoveFileOutcome(actor.id, actor.admin, file_id, folder_id))
        /\ UNCHANGED <<nextFolder, nextFile, reqs>>

UpdateFile(actors, file_cap) ==
    \E actor \in actors, file_id \in IdsUpTo(file_cap),
       description \in Descriptions \cup {NoText} :
        /\ Done(UpdateFileOutcome(actor.id, actor.admin, file_id, description,
                                  NoText, NoText))
        /\ UNCHANGED <<nextFolder, nextFile, reqs>>

UpdateFileVisibility(actors, custom_names, file_cap) ==
    \E actor \in actors, file_id \in IdsUpTo(file_cap), is_public \in OptBool,
       custom_name \in custom_names \cup {NoText} :
        \E slug \in VisibilitySlugChoices(file_id, is_public, custom_name) :
            /\ Done(UpdateFileVisibilityOutcome(actor.id, actor.admin, file_id,
                                                is_public, NoText, NoText, NoText, slug))
            /\ UNCHANGED <<nextFolder, nextFile, reqs>>

DeleteFile(actors, file_cap) ==
    \E actor \in actors, file_id \in IdsUpTo(file_cap), del_ok \in BOOLEAN :
        /\ Done(DeleteFileOutcome(actor.id, actor.admin, file_id, del_ok))
        /\ UNCHANGED <<nextFolder, nextFile, reqs>>

\* two tenants, who create the folders, and an admin; all three upload
Tenants == ActorsOf(Users \ Admins)
FileFolderNames == {"a"}

NextFiles ==
    \/ CreateFolder(Tenants, FileFolderNames, MaxFileFolders)
    \/ UpdateFolder(Actors, FileFolderNames, MaxFileFolders)
    \/ DeleteFolder(Actors, MaxFileFolders)
    \/ GetFolder(Actors, MaxFileFolders)
    \/ GetFolderContents(Actors, MaxFileFolders)
    \/ UploadFile(Actors, {}, MaxFiles, MaxFileFolders)
    \/ GetFile(Actors, MaxFiles)
    \/ GetFileRecord(Actors, MaxFiles)
    \/ MoveFile(Actors, MaxFiles, MaxFileFolders)
    \/ UpdateFile(Actors, MaxFiles)
    \/ UpdateFileVisibility(Actors, {}, MaxFiles)
    \/ DeleteFile(Actors, MaxFiles)

SpecFiles == Init /\ [][NextFiles]_vars

----------------------------------------------------------------------------
(* Requests that interleave: upload_file and update_file_visibility read the
   slug column in their loop and write at their commit; other requests commit
   in between.  A request in flight holds what its session holds. *)

FreeSlots == (1..MaxReqs) \ DOMAIN reqs
Slot == CHOOSE q \in FreeSlots : \A p \in FreeSlots : q <= p

\* upload_file up to the end of the slug loop (lines 122-152)
BeginUpload(actors) ==
    \E actor \in actors, is_public \in BOOLEAN, folder_id \in {NoId, 1} :
        \E slug \in UploadSlugs(files, is_public, NoText) :
            /\ FreeSlots # {}
            /\ nextFile <= MaxSlugFiles
            /\ IF ~UploadFolderFound(folders, folder_id)
               THEN UNCHANGED <<reqs, nextFile>>
               ELSE /\ reqs' = (Slot :> [op |-> "upload",
                                         row |-> NewFile(actor.id, is_public, "report.pdf",
                                                         NoText, "document", NoText,
                                                         folder_id, slug, nextFile)])
                                    @@ reqs
                    /\ nextFile' = nextFile + 1
            /\ UNCHANGED <<folders, files, blobs, nextFolder>>

\* upload_file from the blob write to the commit (lines 157-183)
FinishUpload ==
    \E q \in DOMAIN reqs, put_ok \in BOOLEAN :
        /\ reqs[q].op = "upload"
        /\ LET row == reqs[q].row
           IN  Done(UploadWrite(row.uploaded_by, row.is_public, row.original_name,
                                row.description, row.file_type, row.tags,
                                row.folder_id, row.slug, row.storage_key, put_ok))
        /\ reqs' = Restrict(reqs, DOMAIN reqs \ {q})
        /\ UNCHANGED <<nextFolder, nextFile>>

\* update_file_visibility up to the last assignment (lines 409-448)
BeginVisibility(actors) ==
    \E actor \in actors, file_id \in IdsUpTo(MaxSlugFiles), is_public \in OptBool :
        \E slug \in VisibilitySlugChoices(file_id, is_public, NoText) :
            /\ FreeSlots # {}
            /\ IF \/ file_id \notin DOMAIN files
                  \/ ~CheckFileAccess(actor.id, actor.admin, files[file_id])
               THEN UNCHANGED reqs
               ELSE reqs' = (Slot :> [op |-> "visibility",
                                     file_id |-> file_id,
                                     loaded |-> files[file_id],
                                     row |-> VisibilityChange(files[file_id], is_public,
                                                              NoText, NoText, NoText,
                                                              slug)])
                                @@ reqs
            /\ UNCHANGED <<folders, files, blobs, nextFolder, nextFile>>

\* update_file_visibility: the commit (lines 450-451)
FinishVisibility ==
    \E q \in DOMAIN reqs :
        /\ reqs[q].op = "visibility"
        /\ Done(VisibilityWrite(reqs[q].file_id, reqs[q].loaded, reqs[q].row))
        /\ reqs' = Restrict(reqs, DOMAIN reqs \ {q})
        /\ UNCHANGED <<nextFolder, nextFile>>

\* one uploader; a second tenant, whose requests on the files are refused
Uploaders == ActorsOf({1})
SlugActors == ActorsOf({1, 2})

NextSlug ==
    \/ BeginUpload(Uploaders)
    \/ FinishUpload
    \/ BeginVisibility(SlugActors)
    \/ FinishVisibility
    \/ DeleteFile(SlugActors, MaxSlugFiles)

SpecSlug == Init /\ [][NextSlug]_vars

----------------------------------------------------------------------------
(* Deletes and blob-store failures: one tenant with nested folders and
   private files in them *)

Owner == ActorsOf({1})

NextCascade ==
    \/ CreateFolder(Owner, Names, MaxCascadeFolders)
    \/ UploadFileWith(Owner, {FALSE}, {}, MaxCascadeFiles, MaxCascadeFolders)
    \/ DeleteFile(Owner, MaxCascadeFiles)
    \/ DeleteFolder(Owner, MaxCascadeFolders)
    \/ GetFolder(Owner, MaxCascadeFolders)

SpecCascade == Init /\ [][NextCascade]_vars

----------------------------------------------------------------------------
(* What the listings show: tenants and an admin who create folders inside
   each other's folders and upload private files into them *)

PageNumbers == {1, 2}
PageSizes == {1, 2}
FileTypes == {"document", "image", "video", "audio", "archive", "other"}
\* the file_type filters the listings are asked with (the uploads of the model
\* are documents)
TypeFilters == {"document", "image", NoText}

ListFilesOf(actors, folder_cap) ==
    \E actor \in actors, page \in PageNumbers, per_page \in PageSizes,
       file_type \in TypeFilters, is_public \in {"False", "None"},
       folder_id \in IdsUpTo(folder_cap) \cup {NoId} :
        \E listing \in ListFiles(actor.id, actor.admin, page, per_page, file_type, is_public, folder_id) :
            /\ Done(Raise(HTTP_200_OK, "ok"))
            /\ UNCHANGED <<nextFolder, nextFile, reqs>>

NextView ==
    \/ CreateFolder(Actors, FileFolderNames, MaxViewFolders)
    \/ UploadFileWith(Actors, {FALSE}, {}, MaxViewFiles, MaxViewFolders)
    \/ MoveFile(Actors, MaxViewFiles, MaxViewFolders)
    \/ ViewFolder(Actors, MaxViewFolders)
    \/ ListFoldersIn(Actors, MaxViewFolders)
    \/ FolderTree(Actors)
    \/ ListFilesOf(Actors, MaxViewFolders)

SpecView == Init /\ [][NextView]_vars

----------------------------------------------------------------------------
(* The life of a file record: one tenant who uploads, moves, describes,
   publishes, hides and deletes files, and uploads again *)

\* the slugs an anonymous visitor asks for: those of a name-derived and of a
\* word-pair slug of the uploads of the model
PublicSlugs == GenerateSlug("report", "readable") \cup GenerateSlug("report", "named")

GetPublicFile(slugs) ==
    \E slug \in slugs :
        /\ GetPublicFileResponse(files, blobs, slug).status \in
               {HTTP_200_OK, HTTP_403_FORBIDDEN, HTTP_404_NOT_FOUND}
        /\ UNCHANGED vars

NextKeys ==
    \/ CreateFolder(Owner, FileFolderNames, MaxKeyFolders)
    \/ UploadFile(Owner, {}, MaxKeyFiles, MaxKeyFolders)
    \/ MoveFile(Owner, MaxKeyFiles, MaxKeyFolders)
    \/ UpdateFile(Owner, MaxKeyFiles)
    \/ UpdateFileVisibility(Owner, {}, MaxKeyFiles)
    \/ DeleteFile(Owner, MaxKeyFiles)
    \/ GetPublicFile(PublicSlugs)

SpecKeys == Init /\ [][NextKeys]_vars

----------------------------------------------------------------------------
(* The category of an upload: one tenant uploading files of several names
   and content types, with and without a file_type of their own *)

UploadDetected(actors, file_cap) ==
    \E actor \in actors, filename \in TypedFilenames, content_type \in ContentTypes,
       file_type \in {"other", NoText}, put_ok \in BOOLEAN :
        /\ nextFile <= file_cap
        /\ LET r == UploadFileOutcome(actor.id, FALSE, filename, NoText,
                                      DetectedType(file_type, content_type, filename),
                                      NoText, NoId, NoSlug, nextFile, put_ok)
           IN  /\ Done(r)
               /\ nextFile' = IF nextFile \in r.blobs THEN nextFile + 1 ELSE nextFile
        /\ UNCHANGED <<nextFolder, reqs>>

NextDetect ==
    \/ UploadDetected(Owner, MaxDetectFiles)
    \/ DeleteFile(Owner, MaxDetectFiles)

SpecDetect == Init /\ [][NextDetect]_vars

----------------------------------------------------------------------------
(* Vocabulary of the claims about the folder tree *)

\* the n-th ancestor of folder d along the parent references (NoId above a
\* root-level folder or past a missing one)
RECURSIVE ParentN(_, _, _)
ParentN(fo, d, n) ==
    IF n = 0 THEN d
    ELSE IF d = NoId \/ d \notin DOMAIN fo THEN NoId
    ELSE ParentN(fo, fo[d].parent_id, n - 1)

\* a is a proper ancestor of d
IsAncestorOf(fo, a, d) ==
    \E n \in 1..Cardinality(DOMAIN fo) : ParentN(fo, d, n) = a

Unchanged(r) == r.folders = folders /\ r.files = files /\ r.blobs = blobs

\* the failure kinds of the specification's taxonomy, by HTTP status
Kind(status) ==
    CASE status = 400 -> "BadRequest"
      [] status = 403 -> "Forbidden"
      [] status = 404 -> "NotFound"
      [] status = 409 -> "Conflict"
      [] status = 500 -> "StorageFailure"
      [] OTHER -> "Success"

\* two folders that clash: same owner, same parent, same name
Clash(fo, d, e) ==
    /\ d # e
    /\ fo[d].created_by = fo[e].created_by
    /\ fo[d].parent_id = fo[e].parent_id
    /\ fo[d].name = fo[e].name

----------------------------------------------------------------------------
(* C1: after any sequence of create_folder, update_folder and delete_folder
   requests executed one at a time, no folder is its own ancestor. *)
C1_Acyclic ==
    \A d \in DOMAIN folders : ~IsAncestorOf(folders, d, d)

\* a move has happened (only a move puts a folder under one created after
\* it) and the tree holds a chain three folders deep
C1_Witness ==
    /\ \E d \in DOMAIN folders : folders[d].parent_id > d
    /\ \E d \in DOMAIN folders : ParentN(folders, d, 2) # NoId

(* C2: update_folder by an authorized actor with parent_id equal to the
   folder, or to a descendant of the folder at any depth, fails with
   BadRequest and changes nothing, with or without a rename in the same
   request. *)
C2_CycleMoveRejected ==
    \A actor \in Actors, f \in DOMAIN folders, p \in DOMAIN folders,
       name \in Names \cup {NoName} :
        (/\ CheckFolderAccess(actor.id, actor.admin, folders[f])
         /\ (p = f \/ IsAncestorOf(folders, f, p)))
        => LET r == UpdateFolderOutcome(actor.id, actor.admin, f, name, p)
           IN  Kind(r.status) = "BadRequest" /\ Unchanged(r)

\* the owner of a folder asks to move it under its grandchild, and is refused
C2_Witness ==
    \E actor \in Actors, f \in DOMAIN folders, p \in DOMAIN folders :
        /\ ~actor.admin /\ folders[f].created_by = actor.id
        /\ ParentN(folders, p, 2) = f
        /\ UpdateFolderOutcome(actor.id, actor.admin, f, NoName, p).detail
                = "Cannot move folder into its own subfolder"

(* C3: after any sequence of create_folder and update_folder requests, no two
   distinct folders have the same owner, the same parent and the same name. *)
C3_SiblingNamesUnique ==
    \A d, e \in DOMAIN folders : ~Clash(folders, d, e)

(* C4 as stated: creating a folder, or renaming one, to a name a sibling of
   the same owner already has fails with Conflict and changes nothing. *)
C4_DuplicateIsConflict ==
    /\ \A actor \in Actors, name \in Names, p \in DOMAIN folders \cup {NoId} :
        (\E g \in DOMAIN folders :
            /\ folders[g].name = name /\ folders[g].parent_id = p
            /\ folders[g].created_by = actor.id)
        => LET r == CreateFolderOutcome(actor.id, actor.admin, name, p)
           IN  Kind(r.status) = "Conflict" /\ Unchanged(r)
    /\ \A actor \in Actors, f \in DOMAIN folders, name \in Names :
        (/\ CheckFolderAccess(actor.id, actor.admin, folders[f])
         /\ \E g \in DOMAIN folders \ {f} :
                /\ folders[g].name = name
                /\ folders[g].parent_id = folders[f].parent_id
                /\ folders[g].created_by = folders[f].created_by)
        => LET r == UpdateFolderOutcome(actor.id, actor.admin, f, name, NoId)
           IN  Kind(r.status) = "Conflict" /\ Unchanged(r)

(* C4 as amended: creating a folder, or renaming one, to a name a sibling of
   the same owner already has fails with BadRequest (HTTP 400, "A folder with
   this name already exists in this location") and changes nothing; for a
   rename that also moves the folder, the siblings are those of the new
   parent. *)
C4_DuplicateIsBadRequest ==
    /\ \A actor \in Actors, name \in Names, p \in DOMAIN folders \cup {NoId} :
        (/\ p # NoId => (actor.admin \/ folders[p].created_by = actor.id)
         /\ \E g \in DOMAIN folders :
                /\ folders[g].name = name /\ folders[g].parent_id = p
                /\ folders[g].created_by = actor.id)
        => LET r == CreateFolderOutcome(actor.id, actor.admin, name, p)
           IN  /\ r.status = HTTP_400_BAD_REQUEST
               /\ r.detail = "A folder with this name already exists in this location"
               /\ Unchanged(r)
    /\ \A actor \in Actors, f \in DOMAIN folders, name \in Names,
          p \in DOMAIN folders \cup {NoId} :
        (/\ CheckFolderAccess(actor.id, actor.admin, folders[f])
         /\ p # f /\ ~IsAncestorOf(folders, f, p)
         /\ \E g \in DOMAIN folders \ {f} :
                /\ folders[g].name = name
                /\ folders[g].parent_id = (IF p = NoId THEN folders[f].parent_id ELSE p)
                /\ folders[g].created_by = folders[f].created_by)
        => LET r == UpdateFolderOutcome(actor.id, actor.admin, f, name, p)
           IN  /\ r.status = HTTP_400_BAD_REQUEST
               /\ r.detail = "A folder with this name already exists in this location"
               /\ Unchanged(r)

\* two folders of one owner share a parent folder: creating a third under the
\* name of one, and renaming one to the name of the other, are both refused
C4_Witness ==
    \E actor \in Actors, d, e \in DOMAIN folders :
        /\ d # e
        /\ folders[d].created_by = actor.id /\ folders[e].created_by = actor.id
        /\ folders[d].parent_id = folders[e].parent_id /\ folders[d].parent_id # NoId
        /\ CreateFolderOutcome(actor.id, actor.admin, folders[d].name,
                               folders[d].parent_id).status = HTTP_400_BAD_REQUEST
        /\ UpdateFolderOutcome(actor.id, actor.admin, d, folders[e].name,
                               NoId).status = HTTP_400_BAD_REQUEST

(* C5: creating a folder, or renaming one, to a name that no sibling of the
   same owner has (it is used only under another parent or by another
   owner's folders) succeeds. *)
C5_OtherOwnersNameIsFree ==
    /\ \A actor \in Actors, name \in Names, p \in DOMAIN folders \cup {NoId} :
        (/\ p # NoId => (actor.admin \/ folders[p].created_by = actor.id)
         /\ ~\E g \in DOMAIN folders :
                /\ folders[g].name = name /\ folders[g].parent_id = p
                /\ folders[g].created_by = actor.id)
        => CreateFolderOutcome(actor.id, actor.admin, name, p).status = HTTP_200_OK
    /\ \A actor \in Actors, f \in DOMAIN folders, name \in Names :
        (/\ CheckFolderAccess(actor.id, actor.admin, folders[f])
         /\ ~\E g \in DOMAIN folders \ {f} :
                /\ folders[g].name = name
                /\ folders[g].parent_id = folders[f].parent_id
                /\ folders[g].created_by = folders[f].created_by)
        => UpdateFolderOutcome(actor.id, actor.admin, f, name, NoId).status = HTTP_200_OK

----------------------------------------------------------------------------
(* Vocabulary of the claims about the files and the access policy *)

\* the request was refused with Forbidden and changed no record and no blob
Refused(r) == Kind(r.status) = "Forbidden" /\ Unchanged(r)

Stranger(actor, owner) == ~actor.admin /\ owner # actor.id

\* the upload requests the model draws, as outcomes on the current state
UploadOutcomes(actor, folder_id) ==
    {UploadFileOutcome(actor.id, is_public, "report.pdf", NoText, "document",
                       NoText, folder_id, slug, nextFile, put_ok) :
        <<is_public, slug, put_ok>> \in
            {x \in BOOLEAN \X (GenerateSlug(NoText, "readable") \cup {NoSlug}) \X BOOLEAN :
                x[2] \in UploadSlugs(files, x[1], NoText)}}

\* the delete_folder requests on folder d, as outcomes on the current state
DeleteFolderOutcomes(actor, d) ==
    UNION {UNION {{DeleteFolderOutcome(actor.id, actor.admin, d, recursive, order, fail_at) :
                        fail_at \in 0..Len(order)} :
                    order \in DeleteOrders(d, recursive)} :
            recursive \in BOOLEAN}

\* the update_file_visibility requests on file f, as outcomes on the current state
VisibilityOutcomes(actor, f) ==
    UNION {{UpdateFileVisibilityOutcome(actor.id, actor.admin, f, is_public,
                                        description, NoText, NoText, slug) :
                slug \in VisibilitySlugChoices(f, is_public, NoText),
                description \in Descriptions \cup {NoText}} :
            is_public \in OptBool}

----------------------------------------------------------------------------
(* C6: in every state reached by upload_file, update_file_visibility,
   update_file, move_file and delete_file requests executed one at a time,
   every file record is public if and only if its slug is not None. *)
C6_PublicIffSlug ==
    \A f \in DOMAIN files : files[f].is_public <=> (files[f].slug # NoSlug)

\* a public file with a slug, which update_file touched, and which a request
\* to make it private leaves private and without slug
C6_Witness ==
    \E f \in DOMAIN files :
        /\ files[f].is_public /\ files[f].slug # NoSlug
        /\ files[f].description \in Descriptions
        /\ \E r \in VisibilityOutcomes([id |-> files[f].uploaded_by, admin |-> FALSE], f) :
                /\ r.status = HTTP_200_OK
                /\ ~r.files[f].is_public /\ r.files[f].slug = NoSlug

(* C7: no two file records ever hold the same slug other than None, also when
   uploads of public files and private-to-public visibility updates of
   different files run concurrently and their slug look-ups and their writes
   interleave. *)
C7_SlugsUnique ==
    \A f, g \in DOMAIN files :
        (f # g /\ files[f].slug # NoSlug) => files[f].slug # files[g].slug

\* the race: a request that makes a private file public found its slug free,
\* and before it writes another file was committed with that slug; its write
\* is refused by the database
C7_Witness ==
    \E q \in DOMAIN reqs :
        /\ reqs[q].op = "visibility"
        /\ ~reqs[q].loaded.is_public /\ reqs[q].row.slug # NoSlug
        /\ \E f \in DOMAIN files \ {reqs[q].file_id} : files[f].slug = reqs[q].row.slug
        /\ reqs[q].file_id \in DOMAIN files
        /\ VisibilityWrite(reqs[q].file_id, reqs[q].loaded, reqs[q].row).detail
                = "IntegrityError"

(* C8: an actor who is neither admin nor the owner of a folder or file is
   refused with Forbidden, and nothing changes, by get_folder, update_folder,
   delete_folder, get_folder_contents, get_file_by_id, get_file_record_by_id,
   move_file, update_file, update_file_visibility and delete_file on it; an
   admin is never refused with Forbidden by any of them. *)
C8_OwnershipGate ==
    /\ \A actor \in Actors, d \in DOMAIN folders :
        Stranger(actor, folders[d].created_by)
        => /\ Refused(GetFolderOutcome(actor.id, actor.admin, d))
           /\ Refused(GetFolderContentsOutcome(actor.id, actor.admin, d))
           /\ \A name \in Names \cup {NoName}, p \in IdsUpTo(MaxFileFolders) \cup {NoId} :
                Refused(UpdateFolderOutcome(actor.id, actor.admin, d, name, p))
           /\ \A r \in DeleteFolderOutcomes(actor, d) : Refused(r)
    /\ \A actor \in Actors, f \in DOMAIN files :
        Stranger(actor, files[f].uploaded_by)
        => /\ Refused(GetFileOutcome(actor.id, actor.admin, f))
           /\ Refused(GetFileRecordOutcome(actor.id, actor.admin, f))
           /\ \A p \in IdsUpTo(MaxFileFolders) \cup {NoId} :
                Refused(MoveFileOutcome(actor.id, actor.admin, f, p))
           /\ \A description \in Descriptions \cup {NoText} :
                Refused(UpdateFileOutcome(actor.id, actor.admin, f, description,
                                          NoText, NoText))
           /\ \A r \in VisibilityOutcomes(actor, f) : Refused(r)
           /\ \A del_ok \in BOOLEAN :
                Refused(DeleteFileOutcome(actor.id, actor.admin, f, del_ok))
    /\ \A actor \in Actors :
        actor.admin
        => /\ \A d \in IdsUpTo(MaxFileFolders) :
                /\ GetFolderOutcome(actor.id, actor.admin, d).status # HTTP_403_FORBIDDEN
                /\ GetFolderContentsOutcome(actor.id, actor.admin, d).status
                        # HTTP_403_FORBIDDEN
                /\ \A name \in Names \cup {NoName},
                      p \in IdsUpTo(MaxFileFolders) \cup {NoId} :
                        UpdateFolderOutcome(actor.id, actor.admin, d, name, p).status
                            # HTTP_403_FORBIDDEN
                /\ \A r \in DeleteFolderOutcomes(actor, d) : r.status # HTTP_403_FORBIDDEN
           /\ \A f \in IdsUpTo(MaxFiles) :
                /\ GetFileOutcome(actor.id, actor.admin, f).status # HTTP_403_FORBIDDEN
                /\ GetFileRecordOutcome(actor.id, actor.admin, f).status
                        # HTTP_403_FORBIDDEN
                /\ \A p \in IdsUpTo(MaxFileFolders) \cup {NoId} :
                        MoveFileOutcome(actor.id, actor.admin, f, p).status
                            # HTTP_403_FORBIDDEN
                /\ \A description \in Descriptions \cup {NoText} :
                        UpdateFileOutcome(actor.id, actor.admin, f, description,
                                          NoText, NoText).status # HTTP_403_FORBIDDEN
                /\ \A r \in VisibilityOutcomes(actor, f) : r.status # HTTP_403_FORBIDDEN
                /\ \A del_ok \in BOOLEAN :
                        DeleteFileOutcome(actor.id, actor.admin, f, del_ok).status
                            # HTTP_403_FORBIDDEN

\* a folder and a file in it, both of one tenant: the other tenant is refused
\* the recursive delete of the folder and the delete of the file, the admin is
\* granted both
C8_Witness ==
    \E d \in DOMAIN folders, f \in DOMAIN files, a, b \in Actors :
        /\ files[f].folder_id = d /\ files[f].uploaded_by = folders[d].created_by
        /\ Stranger(a, folders[d].created_by) /\ b.admin /\ b.id # folders[d].created_by
        /\ DeleteFolderOutcome(a.id, a.admin, d, TRUE, <<f>>, 0).status = HTTP_403_FORBIDDEN
        /\ DeleteFileOutcome(a.id, a.admin, f, TRUE).status = HTTP_403_FORBIDDEN
        /\ DeleteFolderOutcome(b.id, b.admin, d, TRUE, <<f>>, 0).status = HTTP_200_OK
        /\ DeleteFileOutcome(b.id, b.admin, f, TRUE).status = HTTP_200_OK

\* the request left every folder, file and blob of the other users as it was
OthersUntouched(actor, r) ==
    /\ \A d \in DOMAIN folders :
        folders[d].created_by # actor.id
        => d \in DOMAIN r.folders /\ r.folders[d] = folders[d]
    /\ \A f \in DOMAIN files :
        files[f].uploaded_by # actor.id
        => /\ f \in DOMAIN r.files /\ r.files[f] = files[f]
           /\ files[f].storage_key \in blobs => files[f].storage_key \in r.blobs

(* C9: no request of a non-admin actor deletes or modifies a folder record, a
   file record or a blob of another user; in particular a recursive
   delete_folder by a non-admin removes only what the actor owns. *)
C9_NonAdminLeavesOthersAlone ==
    \A actor \in Actors :
        ~actor.admin
        => /\ \A name \in Names, p \in IdsUpTo(MaxFileFolders) \cup {NoId} :
                OthersUntouched(actor, CreateFolderOutcome(actor.id, actor.admin, name, p))
           /\ \A d \in IdsUpTo(MaxFileFolders), name \in Names \cup {NoName},
                 p \in IdsUpTo(MaxFileFolders) \cup {NoId} :
                OthersUntouched(actor, UpdateFolderOutcome(actor.id, actor.admin, d, name, p))
           /\ \A d \in IdsUpTo(MaxFileFolders) :
                \A r \in DeleteFolderOutcomes(actor, d) : OthersUntouched(actor, r)
           /\ \A p \in IdsUpTo(MaxFileFolders) \cup {NoId} :
                \A r \in UploadOutcomes(actor, p) : OthersUntouched(actor, r)
           /\ \A f \in IdsUpTo(MaxFiles) :
                /\ \A p \in IdsUpTo(MaxFileFolders) \cup {NoId} :
                        OthersUntouched(actor, MoveFileOutcome(actor.id, actor.admin, f, p))
                /\ \A description \in Descriptions \cup {NoText} :
                        OthersUntouched(actor, UpdateFileOutcome(actor.id, actor.admin, f,
                                                                 description, NoText, NoText))
                /\ \A r \in VisibilityOutcomes(actor, f) : OthersUntouched(actor, r)
                /\ \A del_ok \in BOOLEAN :
                        OthersUntouched(actor, DeleteFileOutcome(actor.id, actor.admin, f,
                                                                 del_ok))

(* C10: upload_file with a folder_id fails with NotFound when the folder does
   not exist and with Forbidden when the uploader is not admin and does not
   own the folder; in both cases no blob is written and no record created. *)
C10_UploadChecksFolder ==
    \A actor \in Actors, p \in IdsUpTo(MaxFileFolders) :
        \A r \in UploadOutcomes(actor, p) :
            /\ p \notin DOMAIN folders => Kind(r.status) = "NotFound" /\ Unchanged(r)
            /\ (p \in DOMAIN folders /\ Stranger(actor, folders[p].created_by))
               => Refused(r)

(* C11: update_folder with a parent_id, by a non-admin actor who owns the
   folder but not the destination folder, fails with Forbidden and leaves the
   folder where it was. *)
C11_MoveChecksDestination ==
    \A actor \in Actors, f \in DOMAIN folders, p \in DOMAIN folders,
       name \in Names \cup {NoName} :
        (/\ ~actor.admin /\ folders[f].created_by = actor.id
         /\ folders[p].created_by # actor.id
         /\ ~IsAncestorOf(folders, f, p))
        => Refused(UpdateFolderOutcome(actor.id, actor.admin, f, name, p))

(* C12: move_file fails with Forbidden when the actor is not admin and does
   not own the file; with a target it fails with NotFound when the target
   folder is absent and with Forbidden when the non-admin actor does not own
   it; every failure changes nothing; on success the file's folder is the
   target (the root level for no target) and nothing else has changed. *)
C12_MoveFile ==
    \A actor \in Actors, f \in DOMAIN files, p \in IdsUpTo(MaxFileFolders) \cup {NoId} :
        LET r == MoveFileOutcome(actor.id, actor.admin, f, p)
        IN  IF Stranger(actor, files[f].uploaded_by)
            THEN Refused(r)
            ELSE IF p # NoId /\ p \notin DOMAIN folders
            THEN Kind(r.status) = "NotFound" /\ Unchanged(r)
            ELSE IF p # NoId /\ Stranger(actor, folders[p].created_by)
            THEN Refused(r)
            ELSE /\ r.status = HTTP_200_OK
                 /\ r.files[f].folder_id = p
                 /\ DOMAIN r.files = DOMAIN files
                 /\ \A g \in DOMAIN files \ {f} : r.files[g] = files[g]
                 /\ \A c \in DOMAIN files[f] \ {"folder_id"} : r.files[f][c] = files[f][c]
                 /\ r.folders = folders /\ r.blobs = blobs

\* a tenant's file lies in the other tenant's folder: its owner may move it to
\* the root level, may not move it into that folder, and is told NotFound for
\* a folder that does not exist; the owner of the folder may not move it
C12_Witness ==
    \E f \in DOMAIN files, p \in DOMAIN folders, a, b \in Actors :
        /\ files[f].folder_id = p
        /\ ~a.admin /\ a.id = files[f].uploaded_by
        /\ ~b.admin /\ b.id = folders[p].created_by /\ a # b
        /\ MoveFileOutcome(a.id, a.admin, f, NoId).files[f].folder_id = NoId
        /\ MoveFileOutcome(a.id, a.admin, f, p).status = HTTP_403_FORBIDDEN
        /\ MoveFileOutcome(a.id, a.admin, f, MaxFileFolders + 1).status = HTTP_404_NOT_FOUND
        /\ MoveFileOutcome(b.id, b.admin, f, NoId).status = HTTP_403_FORBIDDEN

----------------------------------------------------------------------------
(* Vocabulary of the claims about deletion *)

\* folder d and every folder below it, by the parent references
Subtree(d) == {g \in DOMAIN folders : g = d \/ IsAncestorOf(folders, d, g)}

\* the files in the folders of the subtree of d
FilesUnder(d) == {f \in DOMAIN files : files[f].folder_id \in Subtree(d)}

KeysOf(fs) == {files[f].storage_key : f \in fs}

\* the blob store was asked to delete the blobs of order[1..n], in that order
Range(order, n) == {order[i] : i \in 1..n}

(* C13: when every blob deletion succeeds, delete_folder(id, recursive=True)
   asks the blob store to delete exactly the blobs of the files in the
   subtree of id, once each; afterwards no file record references a folder of
   the subtree, no folder record of the subtree remains, get_folder(id) fails
   with NotFound, and the records outside the subtree are unchanged. *)
C13_CascadeComplete ==
    /\ \A d \in DOMAIN folders :
        LET subtree == Subtree(d)
            under == FilesUnder(d)
            orders == DeleteOrders(d, TRUE)
        IN  \A actor \in Actors :
                CheckFolderAccess(actor.id, actor.admin, folders[d])
                => \A order \in orders :
                    LET r == DeleteFolderOutcome(actor.id, actor.admin, d, TRUE, order, 0)
                    IN  /\ Len(order) = Cardinality(under)
                        /\ Range(order, Len(order)) = under
                        /\ r.status = HTTP_200_OK
                        /\ r.blobs = blobs \ KeysOf(under)
                        /\ \A f \in DOMAIN r.files : r.files[f].folder_id \notin subtree
                        /\ DOMAIN r.folders = DOMAIN folders \ subtree
                        /\ DOMAIN r.files = DOMAIN files \ under
                        /\ \A g \in DOMAIN r.folders : r.folders[g] = folders[g]
                        /\ \A f \in DOMAIN r.files : r.files[f] = files[f]
    /\ \A actor \in Actors, d \in IdsUpTo(MaxCascadeFolders) \ DOMAIN folders :
        Kind(GetFolderOutcome(actor.id, actor.admin, d).status) = "NotFound"

\* a folder with a file in it and a file in a subfolder of it, whose recursive
\* delete removes both files, and a folder outside it
C13_Witness ==
    \E d \in DOMAIN folders, f, g \in DOMAIN files :
        /\ files[f].folder_id = d
        /\ ParentN(folders, files[g].folder_id, 1) = d
        /\ DeleteFolderOutcome(1, FALSE, d, TRUE, <<f, g>>, 0).files = <<>>
        /\ \E e \in DOMAIN folders : e \notin Subtree(d)

\* folder d has at least one direct file or direct subfolder
NonEmpty(d) ==
    \/ \E f \in DOMAIN files : files[f].folder_id = d
    \/ \E g \in DOMAIN folders : folders[g].parent_id = d

\* the request removed the record of folder d and nothing else
RemovedOnly(r, d) ==
    /\ r.status = HTTP_200_OK
    /\ DOMAIN r.folders = DOMAIN folders \ {d}
    /\ \A g \in DOMAIN r.folders : r.folders[g] = folders[g]
    /\ r.files = files /\ r.blobs = blobs

(* C14 as stated: delete_folder(id, recursive=False) on a folder with a direct
   file or a direct subfolder fails with Conflict, deletes no blob and changes
   no record; on a folder without direct children it removes exactly that
   folder's record. *)
C14_NonEmptyIsConflict ==
    \A actor \in Actors, d \in DOMAIN folders :
        CheckFolderAccess(actor.id, actor.admin, folders[d])
        => LET r == DeleteFolderOutcome(actor.id, actor.admin, d, FALSE, <<>>, 0)
           IN  IF NonEmpty(d)
               THEN Kind(r.status) = "Conflict" /\ Unchanged(r)
               ELSE RemovedOnly(r, d)

(* C14 as amended: delete_folder(id, recursive=False) on a folder with a direct
   file or a direct subfolder fails with BadRequest (HTTP 400, "Folder is not
   empty. Use recursive=true to delete contents."), deletes no blob and
   changes no record; on a folder without direct children it removes exactly
   that folder's record. *)
C14_NonEmptyIsBadRequest ==
    \A actor \in Actors, d \in DOMAIN folders :
        CheckFolderAccess(actor.id, actor.admin, folders[d])
        => LET r == DeleteFolderOutcome(actor.id, actor.admin, d, FALSE, <<>>, 0)
           IN  IF NonEmpty(d)
               THEN /\ r.status = HTTP_400_BAD_REQUEST
                    /\ r.detail = "Folder is not empty. Use recursive=true to delete contents."
                    /\ Unchanged(r)
               ELSE RemovedOnly(r, d)

\* a folder that holds only a subfolder, a folder that holds only a file and
\* an empty folder: the first two are refused, the third is removed
C14_Witness ==
    \E d, e, g \in DOMAIN folders :
        /\ folders[e].parent_id = d /\ FilesIn(files, d) = {}
        /\ FilesIn(files, e) # {} /\ ChildrenOf(folders, e) = {}
        /\ ~NonEmpty(g)
        /\ DeleteFolderOutcome(1, FALSE, d, FALSE, <<>>, 0).status = HTTP_400_BAD_REQUEST
        /\ DeleteFolderOutcome(1, FALSE, e, FALSE, <<>>, 0).status = HTTP_400_BAD_REQUEST
        /\ g \notin DOMAIN DeleteFolderOutcome(1, FALSE, g, FALSE, <<>>, 0).folders

(* C15: a recursive delete_folder in which the blob deletion of the N-th file
   of the traversal fails stops there with the error: no blob and no record
   that comes later in the traversal is deleted, and the blobs and the
   records of the files handled before it stay deleted. *)
C15_AbortKeepsEarlierDeletes ==
    \A actor \in Actors, d \in DOMAIN folders :
        CheckFolderAccess(actor.id, actor.admin, folders[d])
        => \A order \in DeleteOrders(d, TRUE) :
            \A n \in 1..Len(order) :
                LET r == DeleteFolderOutcome(actor.id, actor.admin, d, TRUE, order, n)
                IN  /\ Kind(r.status) = "StorageFailure"
                    /\ \A i \in n..Len(order) :
                        /\ order[i] \in DOMAIN r.files
                        /\ files[order[i]].storage_key \in blobs
                           => files[order[i]].storage_key \in r.blobs
                    /\ r.folders = folders
                    /\ \A i \in 1..(n - 1) :
                        /\ files[order[i]].storage_key \notin r.blobs
                        /\ order[i] \notin DOMAIN r.files

(* C16: between requests, after any sequence of upload_file, delete_file and
   delete_folder with any pattern of blob-store failures, the storage key of
   every file record refers to a blob that is in the blob store. *)
C16_RecordHasBlob ==
    \A f \in DOMAIN files : files[f].storage_key \in blobs

(* C17: delete_file by an authorized actor deletes the blob first and the
   record second: when the blob deletion fails the request ends with that
   error and the file record is still there, unchanged; when it succeeds the
   blob and the record are gone. *)
C17_DeleteBlobFirst ==
    \A actor \in Actors, f \in DOMAIN files :
        CheckFileAccess(actor.id, actor.admin, files[f])
        => /\ LET r == DeleteFileOutcome(actor.id, actor.admin, f, FALSE)
              IN  /\ Kind(r.status) = "StorageFailure"
                  /\ r.detail = "Failed to delete file"
                  /\ f \in DOMAIN r.files /\ r.files[f] = files[f]
                  /\ r.files = files /\ r.folders = folders
           /\ LET r == DeleteFileOutcome(actor.id, actor.admin, f, TRUE)
              IN  /\ r.status = HTTP_200_OK
                  /\ files[f].storage_key \notin r.blobs
                  /\ DOMAIN r.files = DOMAIN files \ {f}

\* a file with its blob, which its owner asks to delete: the record survives a
\* failure of the blob store, and goes with the blob otherwise
C17_Witness ==
    \E f \in DOMAIN files, a \in Actors :
        /\ ~a.admin /\ a.id = files[f].uploaded_by
        /\ files[f].storage_key \in blobs
        /\ f \in DOMAIN DeleteFileOutcome(a.id, a.admin, f, FALSE).files
        /\ files[f].storage_key \in DeleteFileOutcome(a.id, a.admin, f, FALSE).blobs
        /\ f \notin DOMAIN DeleteFileOutcome(a.id, a.admin, f, TRUE).files
        /\ files[f].storage_key \notin DeleteFileOutcome(a.id, a.admin, f, TRUE).blobs

(* C18: upload_file writes the blob before it creates the record.  In every
   state every file record's storage key is one whose blob write has completed
   (nextFile passes a key exactly when its blob write completed), and an
   upload whose blob write fails creates no record. *)
C18_UploadBlobFirst ==
    /\ \A f \in DOMAIN files : files[f].storage_key < nextFile
    /\ \A actor \in Actors, is_public \in BOOLEAN,
          p \in IdsUpTo(MaxFileFolders) \cup {NoId} :
            \A slug \in UploadSlugs(files, is_public, NoText) :
                LET r == UploadFileOutcome(actor.id, is_public, "report.pdf", NoText,
                                           "document", NoText, p, slug, nextFile, FALSE)
                IN  /\ r.files = files /\ r.folders = folders
                    /\ nextFile \notin r.blobs
                    /\ UploadFolderFound(folders, p) => Kind(r.status) = "StorageFailure"

\* a file record with its blob in the store, in a state in which an upload
\* whose blob write fails ends with the error and an upload whose blob write
\* succeeds creates a record
C18_Witness ==
    /\ \E f \in DOMAIN files : files[f].storage_key \in blobs
    /\ UploadFileOutcome(1, FALSE, "report.pdf", NoText, "document", NoText, NoId,
                         NoSlug, nextFile, FALSE).detail = "Failed to upload file"
    /\ nextFile \in DOMAIN UploadFileOutcome(1, FALSE, "report.pdf", NoText, "document",
                                             NoText, NoId, NoSlug, nextFile, TRUE).files

----------------------------------------------------------------------------
(* Vocabulary of the claims about breadcrumbs *)

\* how far up the parent references lead from id: 0..Depth(id)-1 are the
\* levels at which there is a folder
Depth(id) ==
    Cardinality({n \in 0..Cardinality(DOMAIN folders) :
                    ParentN(folders, id, n) \in DOMAIN folders})

\* the walk upward from id comes to a folder that is not the actor's
MeetsForeign(actor, id) ==
    \E n \in 0..Cardinality(DOMAIN folders) :
        /\ ParentN(folders, id, n) \in DOMAIN folders
        /\ Stranger(actor, folders[ParentN(folders, id, n)].created_by)

\* path lists the folders from the top of the chain above id down to id
IsChainTo(path, id) ==
    /\ Len(path) = Depth(id)
    /\ \A i \in 1..Len(path) :
        /\ path[i].id = ParentN(folders, id, Len(path) - i)
        /\ path[i].name = folders[path[i].id].name

(* C19: for a folder whose ancestors all exist and pass the access rule for
   the actor, get_breadcrumbs returns the chain from the root-level ancestor
   to the folder: the first element has no parent, each following element is
   a child of the one before it, the last element is the folder. *)
C19_BreadcrumbsRootToFolder ==
    \A actor \in Actors, d \in DOMAIN folders :
        ~MeetsForeign(actor, d)
        => LET r == GetBreadcrumbsOutcome(actor.id, actor.admin, d)
               path == r.path
           IN  /\ r.status = HTTP_200_OK
               /\ Len(path) >= 1
               /\ folders[path[1].id].parent_id = NoId
               /\ \A i \in 2..Len(path) : folders[path[i].id].parent_id = path[i - 1].id
               /\ path[Len(path)].id = d
               /\ \A i \in 1..Len(path) : path[i].name = folders[path[i].id].name

\* a folder two levels below the root level, all three of one tenant, whose
\* breadcrumbs have three elements
C19_Witness ==
    \E d \in DOMAIN folders, a \in Actors :
        /\ ~a.admin /\ ~MeetsForeign(a, d)
        /\ ParentN(folders, d, 2) \in DOMAIN folders
        /\ folders[d].name # folders[ParentN(folders, d, 2)].name
        /\ Len(GetBreadcrumbsOutcome(a.id, a.admin, d).path) = 3

(* C20: get_breadcrumbs by a non-admin actor fails with Forbidden, returning
   no path, whenever the folder or an existing ancestor reached by the walk
   upward belongs to another user; otherwise a reference to a missing folder
   ends the walk without error, and the path collected so far is returned. *)
C20_BreadcrumbsForbiddenOrPartial ==
    \A actor \in Actors, id \in IdsUpTo(MaxFolders) :
        ~actor.admin
        => LET r == GetBreadcrumbsOutcome(actor.id, actor.admin, id)
           IN  IF MeetsForeign(actor, id)
               THEN Kind(r.status) = "Forbidden" /\ r.path = <<>> /\ Unchanged(r)
               ELSE r.status = HTTP_200_OK /\ IsChainTo(r.path, id)

\* a tenant's folder inside a folder of another user, for which the tenant is
\* refused although the walk starts at a folder of the tenant's own, and a
\* reference to a folder that is gone, for which the path is empty
C20_Witness ==
    \E d \in DOMAIN folders, a \in Actors :
        /\ ~a.admin /\ folders[d].created_by = a.id
        /\ folders[d].parent_id \in DOMAIN folders
        /\ folders[folders[d].parent_id].created_by # a.id
        /\ GetBreadcrumbsOutcome(a.id, a.admin, d).status = HTTP_403_FORBIDDEN
        /\ \E id \in 1..(nextFolder - 1) :
            /\ id \notin DOMAIN folders
            /\ GetBreadcrumbsOutcome(a.id, a.admin, id).status = HTTP_200_OK
            /\ GetBreadcrumbsOutcome(a.id, a.admin, id).path = <<>>

----------------------------------------------------------------------------
(* Vocabulary of the claims about listings *)

\* the actor may see folder d: it is the actor's own, or the actor is an admin
Visible(actor, d) == actor.admin \/ folders[d].created_by = actor.id

IdsOf(nodes) == {nodes[i].id : i \in 1..Len(nodes)}

\* the nodes of a forest, at every level
RECURSIVE ForestNodes(_)
ForestNodes(forest) ==
    IF forest = <<>> THEN {}
    ELSE {Head(forest)} \cup ForestNodes(Head(forest).children)
                        \cup ForestNodes(Tail(forest))

\* the ids of the nodes of a forest, one entry per occurrence
RECURSIVE ForestIds(_)
ForestIds(forest) ==
    IF forest = <<>> THEN <<>>
    ELSE <<Head(forest).id>> \o ForestIds(Head(forest).children)
                             \o ForestIds(Tail(forest))

\* nodes are exactly the visible folders with parent parent_id, once each,
\* under their names, in ascending name order
IsLevelOf(nodes, parent_id, actor) ==
    /\ IdsOf(nodes) = {d \in DOMAIN folders : Visible(actor, d) /\ folders[d].parent_id = parent_id}
    /\ Cardinality(IdsOf(nodes)) = Len(nodes)
    /\ \A i \in 1..Len(nodes) : nodes[i].name = folders[nodes[i].id].name
    /\ \A i \in 1..(Len(nodes) - 1) : TextRank(nodes[i].name) <= TextRank(nodes[i + 1].name)

(* C21: get_folder_tree returns a forest in which the children of every node
   are exactly the visible folders whose parent is that node, in ascending
   name order at every level; the roots are the visible root-level folders
   (for a non-admin, the actor's own); for an admin every existing folder
   appears exactly once in the forest. *)
C21_TreeIsVisibleForest ==
    \A actor \in Actors :
        /\ GetFolderTree(actor.id, actor.admin) # {}
        /\ \A forest \in GetFolderTree(actor.id, actor.admin) :
            /\ IsLevelOf(forest, NoId, actor)
            /\ \A n \in ForestNodes(forest) : IsLevelOf(n.children, n.id, actor)
            /\ actor.admin =>
                /\ Len(ForestIds(forest)) = Cardinality(DOMAIN folders)
                /\ \A d \in DOMAIN folders : \E i \in 1..Len(ForestIds(forest)) : ForestIds(forest)[i] = d

\* a tenant's root-level folder with a subfolder of the tenant's and one of an
\* admin's, under different names: the tenant's tree has one child there, the
\* admin's two
C21_Witness ==
    \E d \in DOMAIN folders :
        /\ folders[d].parent_id = NoId /\ folders[d].created_by = 1
        /\ \E forest \in GetFolderTree(1, FALSE) :
            \E i \in 1..Len(forest) : forest[i].id = d /\ Len(forest[i].children) = 1
        /\ \E forest \in GetFolderTree(3, TRUE) :
            \E i \in 1..Len(forest) :
                /\ forest[i].id = d /\ Len(forest[i].children) = 2
                /\ forest[i].children[1].name # forest[i].children[2].name

\* every folder of the list belongs to the actor
AllFoldersOwn(actor, ids) ==
    \A i \in 1..Len(ids) : ids[i] \in DOMAIN folders /\ folders[ids[i]].created_by = actor.id

\* every file of the list belongs to the actor
AllFilesOwn(actor, ids) ==
    \A i \in 1..Len(ids) : ids[i] \in DOMAIN files /\ files[ids[i]].uploaded_by = actor.id

\* the list holds exactly the members of S
Lists(ids, S) == {ids[i] : i \in 1..Len(ids)} = S

(* C22: every folder and every file that get_folder_contents (root view or a
   given folder), get_folder_tree, list_folders or list_files returns to a
   non-admin actor is owned by that actor, in every reachable state; an admin
   is shown the folders and files of all owners. *)
C22_ListingsShowOwn ==
    \A actor \in Actors :
        /\ \A folder_id \in IdsUpTo(MaxViewFolders) \cup {NoId} :
            /\ GetFolderContentsOutcome(actor.id, actor.admin, folder_id).status = HTTP_200_OK
               => \A c \in FolderContents(actor.id, actor.admin, folder_id) :
                    IF actor.admin
                    THEN /\ Lists(c.subfolders, ChildrenOf(folders, folder_id))
                         /\ Lists(c.files, FilesIn(files, folder_id))
                    ELSE AllFoldersOwn(actor, c.subfolders) /\ AllFilesOwn(actor, c.files)
            /\ \A rows \in ListFolders(actor.id, actor.admin, folder_id) :
                    IF actor.admin
                    THEN Lists(rows, ChildrenOf(folders, folder_id))
                    ELSE AllFoldersOwn(actor, rows)
            /\ \A page \in PageNumbers, per_page \in PageSizes, file_type \in TypeFilters, is_public \in OptBool :
                \A listing \in ListFiles(actor.id, actor.admin, page, per_page, file_type, is_public, folder_id) :
                    /\ ~actor.admin => AllFilesOwn(actor, listing.files)
                    /\ (actor.admin /\ file_type = NoText /\ is_public = "None" /\ folder_id = NoId)
                       => listing.total = Cardinality(DOMAIN files)
        /\ \A forest \in GetFolderTree(actor.id, actor.admin) :
                IF actor.admin
                THEN Lists(ForestIds(forest), DOMAIN folders)
                ELSE AllFoldersOwn(actor, ForestIds(forest))

\* a tenant's folder that holds a subfolder and a file of other users: the
\* tenant is shown neither, an admin both
C22_Witness ==
    \E d \in DOMAIN folders, g \in DOMAIN folders, f \in DOMAIN files :
        /\ folders[d].created_by = 1 /\ folders[d].parent_id = NoId
        /\ folders[g].parent_id = d /\ folders[g].created_by # 1
        /\ files[f].folder_id = d /\ files[f].uploaded_by = 2
        /\ FolderContents(1, FALSE, d) = {[subfolders |-> <<>>, files |-> <<>>]}
        /\ FolderContents(3, TRUE, d) = {[subfolders |-> <<g>>, files |-> <<f>>]}
        /\ \A listing \in ListFiles(1, FALSE, 1, 2, NoText, "None", NoId) : listing.total = 0

----------------------------------------------------------------------------
(* Vocabulary of the claims about visibility and slugs *)

\* the request asks for the visibility the file already has, or for none
KeepsVisibility(db_file, is_public) ==
    \/ is_public = "None"
    \/ is_public = "True" /\ db_file.is_public
    \/ is_public = "False" /\ ~db_file.is_public

(* C23: update_file_visibility with is_public equal to the file's current
   visibility, or with is_public absent, leaves the file's slug and
   visibility unchanged; a public-to-private transition sets the slug to
   None, and a private-to-public transition sets a slug that is not None. *)
C23_VisibilityTransitions ==
    \A actor \in Actors, f \in DOMAIN files :
        CheckFileAccess(actor.id, actor.admin, files[f])
        => \A is_public \in OptBool, custom_name \in CustomNames \cup {NoText}, description \in Descriptions \cup {NoText} :
            \A slug \in VisibilitySlugChoices(f, is_public, custom_name) :
                LET r == UpdateFileVisibilityOutcome(actor.id, actor.admin, f, is_public, description, NoText, NoText, slug)
                    old == files[f]
                    new == r.files[f]
                IN  /\ r.status = HTTP_200_OK
                    /\ IF KeepsVisibility(old, is_public)
                       THEN new.slug = old.slug /\ new.is_public = old.is_public
                       ELSE IF old.is_public
                       THEN new.slug = NoSlug /\ ~new.is_public
                       ELSE new.slug # NoSlug /\ new.is_public

\* a public file, which a request for "public" with a new description leaves
\* with its slug, and which a request for "private" leaves without
C23_Witness ==
    \E f \in DOMAIN files :
        /\ files[f].is_public /\ files[f].slug # NoSlug /\ files[f].description = NoText
        /\ UpdateFileVisibilityOutcome(files[f].uploaded_by, FALSE, f, "True", "d", NoText, NoText, NoSlug).files[f]
                = [files[f] EXCEPT !.description = "d"]
        /\ UpdateFileVisibilityOutcome(files[f].uploaded_by, FALSE, f, "False", NoText, NoText, NoText, NoSlug).files[f].slug
                = NoSlug

\* the name part of a slug derived from name, as the "named" style of
\* generate_slug derives it
StemOf(name) == IF CleanName(name) # "" THEN CleanName(name) ELSE "file"

(* C24: when update_file_visibility takes a file from private to public, the
   slug it sets is derived from custom_name when that is given, and otherwise
   from the file's original name without its extension. *)
C24_PublicSlugFromName ==
    \A actor \in Actors, f \in DOMAIN files :
        (CheckFileAccess(actor.id, actor.admin, files[f]) /\ ~files[f].is_public)
        => \A custom_name \in CustomNames \cup {NoText} :
            \A slug \in VisibilitySlugChoices(f, "True", custom_name) :
                LET r == UpdateFileVisibilityOutcome(actor.id, actor.admin, f, "True", NoText, NoText, NoText, slug)
                IN  r.status = HTTP_200_OK
                    => r.files[f].slug[1] = StemOf(IF custom_name # NoText
                                                   THEN custom_name
                                                   ELSE BaseName(files[f].original_name))

----------------------------------------------------------------------------
(* Vocabulary of the claim about the category of an upload *)

\* the category the extension table gives a filename, "" if none
CategoryOfEnding(ending) ==
    CASE ending \in ImageExtensions -> "image"
      [] ending \in VideoExtensions -> "video"
      [] ending \in AudioExtensions -> "audio"
      [] ending \in DocumentExtensions -> "document"
      [] ending \in ArchiveExtensions -> "archive"
      [] OTHER -> ""

\* the category in the order the claim gives: content-type prefix, then the
\* extension table, then the words in the content type, then "other"
CategoryInStatedOrder(content_type, filename) ==
    LET ct == IF content_type = NoText THEN "" ELSE Lower(content_type)
        fn == Lower(filename)
    IN  IF PrefixOf(ct) = "image/" THEN "image"
        ELSE IF PrefixOf(ct) = "video/" THEN "video"
        ELSE IF PrefixOf(ct) = "audio/" THEN "audio"
        ELSE IF CategoryOfEnding(EndingOf(fn)) # "" THEN CategoryOfEnding(EndingOf(fn))
        ELSE IF WordsIn(ct) \cap DocumentWords # {} THEN "document"
        ELSE IF WordsIn(ct) \cap ArchiveWords # {} THEN "archive"
        ELSE "other"

\* the records an upload without file_type would leave, by content type and
\* filename
TypedUpload(content_type, filename) ==
    UploadFileOutcome(1, FALSE, filename, NoText, DetectedType(NoText, content_type, filename), NoText, NoId, NoSlug, nextFile, TRUE)

(* C25: when file_type is omitted on upload, the category recorded is decided
   in this order: a content type with prefix image/, video/ or audio/ decides
   first; if none matches, the filename-extension table decides; if that does
   not match, a word of the document or archive family in the content type
   decides; otherwise the category is other.  It is always one of document,
   image, video, audio, archive, other. *)
C25_CategoryInStatedOrder ==
    \A content_type \in ContentTypes, filename \in TypedFilenames :
        LET r == TypedUpload(content_type, filename)
        IN  /\ r.status = HTTP_200_OK
            /\ r.files[nextFile].file_type \in FileTypes
            /\ r.files[nextFile].file_type = CategoryInStatedOrder(content_type, filename)

----------------------------------------------------------------------------
(* Vocabulary of the claim about the folder filter of list_files *)

\* the folder_id list_files is called with for a folder filter, which is
\* "folder" with an id, "root" or "omitted": Python has one value, None, for
\* "no folder" and for "not given"
FolderArgument(filter, id) == IF filter = "folder" THEN id ELSE NoId

\* the files a folder filter asks for
FilesAskedFor(filter, id) ==
    CASE filter = "omitted" -> DOMAIN files
      [] filter = "root" -> {f \in DOMAIN files : files[f].folder_id = NoId}
      [] OTHER -> {f \in DOMAIN files : files[f].folder_id = id}

(* C26: list_files distinguishes three cases of the folder filter: with the
   id of an existing folder it returns only the files placed in that folder;
   with the filter explicitly set to root it returns only the files with no
   folder; with the filter omitted it returns the files of every placement. *)
C26_FolderFilter ==
    \A filter \in {"folder", "root", "omitted"}, id \in DOMAIN folders \cup {NoId} :
        (filter = "folder") = (id # NoId)
        => \A listing \in ListFiles(3, TRUE, 1, MaxViewFiles + 1, NoText, "None", FolderArgument(filter, id)) :
            /\ listing.total = Cardinality(FilesAskedFor(filter, id))
            /\ Lists(listing.files, FilesAskedFor(filter, id))

----------------------------------------------------------------------------
(* Vocabulary of the claims about creation and ownership *)

\* the request added folder d, as record, and nothing else changed
AddedOnly(r, d, record) ==
    /\ d \notin DOMAIN folders
    /\ DOMAIN r.folders = DOMAIN folders \cup {d}
    /\ r.folders[d] = record
    /\ \A g \in DOMAIN folders : r.folders[g] = folders[g]
    /\ r.files = files /\ r.blobs = blobs

(* C27: create_folder(name, parent_id) fails with NotFound if parent_id is
   given and no such folder exists, and with Forbidden if the actor is not an
   admin and does not own the parent, creating no folder in either case; on
   success exactly one folder is added, with the given name and parent and
   with the actor as owner, also when an admin creates it under another
   user's folder. *)
C27_CreateFolder ==
    \A actor \in Actors, name \in Names, parent_id \in IdsUpTo(MaxFolders) \cup {NoId} :
        LET r == CreateFolderOutcome(actor.id, actor.admin, name, parent_id)
        IN  /\ (parent_id # NoId /\ parent_id \notin DOMAIN folders)
               => Kind(r.status) = "NotFound" /\ Unchanged(r)
            /\ (parent_id \in DOMAIN folders /\ Stranger(actor, folders[parent_id].created_by))
               => Kind(r.status) = "Forbidden" /\ Unchanged(r)
            /\ r.status = HTTP_200_OK
               => AddedOnly(r, nextFolder, [name |-> name, parent_id |-> parent_id, created_by |-> actor.id])
            /\ r.status # HTTP_200_OK => Unchanged(r)

\* an admin's folder inside a tenant's folder, a tenant refused inside an
\* admin's folder, and a parent that is gone
C27_Witness ==
    /\ \E d, g \in DOMAIN folders :
        /\ folders[g].parent_id = d
        /\ folders[g].created_by = 3 /\ folders[d].created_by = 1
    /\ \E d \in DOMAIN folders, name \in Names :
        /\ folders[d].created_by = 3
        /\ CreateFolderOutcome(1, FALSE, name, d).status = HTTP_403_FORBIDDEN
    /\ \E d \in 1..(nextFolder - 1), name \in Names :
        /\ d \notin DOMAIN folders
        /\ CreateFolderOutcome(1, FALSE, name, d).status = HTTP_404_NOT_FOUND

(* C28: the owner of a folder and the owner of a file never change after
   creation: no step of any request (update_folder, move_file, update_file,
   update_file_visibility, or a request of an admin on another user's folder
   or file) changes created_by or uploaded_by of a record that exists before
   and after it. *)
C28_OwnersNeverChange ==
    [][/\ \A d \in DOMAIN folders \cap DOMAIN folders' :
            folders'[d].created_by = folders[d].created_by
       /\ \A f \in DOMAIN files \cap DOMAIN files' :
            files'[f].uploaded_by = files[f].uploaded_by]_vars

\* a tenant's file that has been given a description and sits in a folder of
\* another tenant, which an admin can move and update
C28_Witness ==
    \E f \in DOMAIN files, d \in DOMAIN folders :
        /\ files[f].uploaded_by = 1 /\ files[f].description = "d"
        /\ files[f].folder_id = d /\ folders[d].created_by = 2
        /\ MoveFileOutcome(3, TRUE, f, NoId).status = HTTP_200_OK
        /\ MoveFileOutcome(3, TRUE, f, NoId).files[f].folder_id = NoId
        /\ UpdateFolderOutcome(3, TRUE, d, "a", NoId).status = HTTP_200_OK

(* C29: a file's storage key is set once, by upload_file, and no later step
   changes it; no storage key is held by two file records; and a new record
   never gets a key that a record held before, also when that record has
   been deleted (every key ever given is below nextFile, the keys of new
   records are not). *)
C29_StorageKeySetOnce ==
    [][/\ \A f \in DOMAIN files \cap DOMAIN files' :
            files'[f].storage_key = files[f].storage_key
       /\ \A f, g \in DOMAIN files' :
            f # g => files'[f].storage_key # files'[g].storage_key
       /\ \A f \in DOMAIN files' \ DOMAIN files : files'[f].storage_key >= nextFile
       /\ \A f \in DOMAIN files' : files'[f].storage_key < nextFile'
       /\ nextFile' >= nextFile]_vars

\* a second file, uploaded after the first was deleted, that has been moved
\* into a folder, described and made public since
C29_Witness ==
    \E f \in DOMAIN files :
        /\ f > 1 /\ 1 \notin DOMAIN files /\ 1 \notin blobs
        /\ files[f].folder_id # NoId /\ files[f].description = "d"
        /\ files[f].is_public /\ files[f].storage_key = f

----------------------------------------------------------------------------
(* Vocabulary of the claim about repeated deletion *)

\* the blob of file f is not in the blob store
BlobMissing(f) == files[f].storage_key \notin blobs

(* C30: deleting a blob that is already absent from the blob store counts as
   success: delete_file on a file whose blob is missing, and a recursive
   delete_folder over files some of whose blobs are missing, complete and
   remove the records when the blob store raises nothing, so that running a
   deletion again after a partial failure completes the cleanup. *)
C30_AbsentBlobIsSuccess ==
    /\ \A f \in DOMAIN files, actor \in Actors :
        (BlobMissing(f) /\ CheckFileAccess(actor.id, actor.admin, files[f]))
        => LET r == DeleteFileOutcome(actor.id, actor.admin, f, TRUE)
           IN  /\ r.status = HTTP_200_OK
               /\ DOMAIN r.files = DOMAIN files \ {f}
               /\ r.blobs = blobs /\ r.folders = folders
    /\ \A d \in DOMAIN folders :
        LET under == FilesUnder(d)
            subtree == Subtree(d)
        IN  (\E f \in under : BlobMissing(f))
            => \A actor \in Actors :
                CheckFolderAccess(actor.id, actor.admin, folders[d])
                => \A order \in DeleteOrders(d, TRUE) :
                    LET r == DeleteFolderOutcome(actor.id, actor.admin, d, TRUE, order, 0)
                    IN  /\ r.status = HTTP_200_OK
                        /\ DOMAIN r.files = DOMAIN files \ under
                        /\ DOMAIN r.folders = DOMAIN folders \ subtree
                        /\ r.blobs \cap KeysOf(under) = {}

\* a folder with two files, one of which lost its blob in a recursive delete
\* that failed part-way: the same delete, run again, removes both records and
\* the blob that was left, and delete_file removes the record without blob
C30_Witness ==
    \E d \in DOMAIN folders, f, g \in DOMAIN files :
        /\ files[f].folder_id = d /\ files[g].folder_id = d
        /\ BlobMissing(f) /\ ~BlobMissing(g)
        /\ DeleteFolderOutcome(1, FALSE, d, TRUE, <<f, g>>, 0).status = HTTP_200_OK
        /\ DeleteFolderOutcome(1, FALSE, d, TRUE, <<f, g>>, 0).files = <<>>
        /\ DeleteFolderOutcome(1, FALSE, d, TRUE, <<f, g>>, 0).blobs = {}
        /\ DeleteFileOutcome(1, FALSE, f, TRUE).status = HTTP_200_OK

----------------------------------------------------------------------------
(* Retrieval by slug without authentication *)

\* in tables fi and blob store bl, asking for slug releases content only of
\* a public record that holds slug, and a refusal releases nothing
ReleasesOnlyPublic(fi, bl, slug) ==
    LET r == GetPublicFileResponse(fi, bl, slug)
    IN  /\ r.status = HTTP_200_OK
            => \E f \in DOMAIN fi : /\ fi[f].slug = slug
                                    /\ fi[f].is_public
                                    /\ r.content = {fi[f].storage_key}
        /\ r.status # HTTP_200_OK => r.content = {}
        /\ (\E f \in DOMAIN fi : fi[f].slug = slug /\ ~fi[f].is_public)
            => r.status = HTTP_403_FORBIDDEN

C31_InEveryState ==
    /\ \A slug \in PublicSlugs : ReleasesOnlyPublic(files, blobs, slug)
    /\ \A f \in DOMAIN files :
        LET r == ServePublicFile([files[f] EXCEPT !.is_public = FALSE], blobs)
        IN  r.status = HTTP_403_FORBIDDEN /\ r.content = {}
    /\ \A f \in DOMAIN files, slug \in PublicSlugs :
        ~files[f].is_public
        => files[f].storage_key \notin GetPublicFileResponse(files, blobs, slug).content

C31_InEveryStep ==
    \A f \in DOMAIN files :
        (files[f].is_public /\ (f \notin DOMAIN files' \/ ~files'[f].is_public))
        => files[f].storage_key \notin GetPublicFileResponse(files', blobs', files[f].slug).content

(* C31: retrieval by slug without authentication releases content only of a
   public file: the body is that of a public record holding the slug, a
   record that is not public is answered 403 with no content, and from the
   step that makes a file private or deletes it on, the slug it had no
   longer yields its content. *)
C31_PublicRetrieval == []C31_InEveryState /\ [][C31_InEveryStep]_vars

\* a public file whose slug yields its content, beside a file that was made
\* private or uploaded private and that no slug yields, and a slug nobody
\* holds that is answered 404
C31_Witness ==
    \E f, g \in DOMAIN files, slug \in PublicSlugs :
        /\ files[f].is_public /\ files[f].slug # slug
        /\ GetPublicFileResponse(files, blobs, files[f].slug).status = HTTP_200_OK
        /\ GetPublicFileResponse(files, blobs, files[f].slug).content = {files[f].storage_key}
        /\ ~files[g].is_public /\ files[g].storage_key \in blobs
        /\ GetPublicFileResponse(files, blobs, slug).status = HTTP_404_NOT_FOUND

----------------------------------------------------------------------------
(* update_folder and the root level *)

(* C38: update_folder reads an absent (null) parent_id as "leave the parent
   as it is": no update_folder call turns a folder that has a parent into a
   root-level folder, and whenever a call changes a folder's parent the new
   parent is the existing folder the request names. *)
C38_NeverBackToRoot ==
    \A actor \in Actors, d \in DOMAIN folders, name \in Names \cup {NoName},
       parent_id \in IdsUpTo(MaxFolders) \cup {NoId} :
        LET r == UpdateFolderOutcome(actor.id, actor.admin, d, name, parent_id)
        IN  /\ DOMAIN r.folders = DOMAIN folders
            /\ folders[d].parent_id # NoId => r.folders[d].parent_id # NoId
            /\ parent_id = NoId => r.folders[d].parent_id = folders[d].parent_id
            /\ r.folders[d].parent_id # folders[d].parent_id
                => /\ r.folders[d].parent_id = parent_id
                   /\ parent_id \in DOMAIN folders
            /\ \A e \in DOMAIN folders \ {d} : r.folders[e].parent_id = folders[e].parent_id

\* a folder inside another one that its owner renames with no parent_id in
\* the request, and keeps its parent; and that a request moves to a third
\* folder
C38_Witness ==
    \E d, e \in DOMAIN folders, name \in Names :
        /\ folders[d].parent_id # NoId /\ folders[d].name # name
        /\ e # folders[d].parent_id
        /\ LET u == folders[d].created_by
               r == UpdateFolderOutcome(u, FALSE, d, name, NoId)
               m == UpdateFolderOutcome(u, FALSE, d, NoName, e)
           IN  /\ r.status = HTTP_200_OK
               /\ r.folders[d].name = name
               /\ r.folders[d].parent_id = folders[d].parent_id
               /\ m.status = HTTP_200_OK
               /\ m.folders[d].parent_id = e

----------------------------------------------------------------------------
(* The tree walks *)

\* the calls a walk may make before the interpreter gives up (its recursion
\* limit, far above the number of folders)
WalkBudget(fo) == 2 * Cardinality(DOMAIN fo) + 2

\* the folders visited by the recursion of _is_descendant (when nothing is
\* found) and of _delete_folder_contents, in the order of the visits: stack
\* holds the rows still to visit; a walk cut off by the budget ends in NoId
RECURSIVE DownWalk(_, _, _)
DownWalk(fo, stack, fuel) ==
    IF stack = <<>> THEN <<>>
    ELSE IF fuel = 0 THEN <<NoId>>
    ELSE <<Head(stack)>>
            \o DownWalk(fo,
                        (CHOOSE q \in Perms(ChildrenOf(fo, Head(stack))) : TRUE)
                            \o Tail(stack),
                        fuel - 1)

\* the walk below folder_id
WalkBelow(fo, folder_id) ==
    DownWalk(fo, CHOOSE q \in Perms(ChildrenOf(fo, folder_id)) : TRUE, WalkBudget(fo))

\* the folders get_breadcrumbs visits from folder_id upwards, root first
WalkAbove(fo, folder_id) ==
    BreadcrumbsWalk(fo, 3, TRUE, folder_id, <<>>, WalkBudget(fo)).path

Visited(seq) == {seq[i] : i \in 1..Len(seq)}

OnceEach(seq) == \A i, j \in 1..Len(seq) : seq[i] = seq[j] => i = j

(* C35: in every folder state reachable by requests that run one at a time,
   each tree walk ends and visits no folder twice: the walk below a folder
   made by the descendant check of update_folder and by the traversal of
   recursive delete_folder visits exactly the descendants, once each; the
   upward walk of get_breadcrumbs ends at a root-level folder after at most
   as many steps as there are folders; and get_folder_tree builds a forest
   that holds every folder once. *)
C35_WalksTerminate ==
    /\ \A d \in DOMAIN folders :
        /\ OnceEach(WalkBelow(folders, d))
        /\ NoId \notin Visited(WalkBelow(folders, d))
        /\ Visited(WalkBelow(folders, d)) = Subfolders(folders, d)
        /\ d \notin Visited(WalkBelow(folders, d))
        /\ DeleteOrders(d, TRUE) # {}
        /\ \A order \in DeleteOrders(d, TRUE) : OnceEach(order)
        /\ LET up == WalkAbove(folders, d)
           IN  /\ Len(up) <= Cardinality(DOMAIN folders)
               /\ OnceEach(up)
               /\ up[Len(up)].id = d
               /\ folders[up[1].id].parent_id = NoId
    /\ GetFolderTree(3, TRUE) # {}
    /\ \A forest \in GetFolderTree(3, TRUE) :
        /\ OnceEach(ForestIds(forest))
        /\ Visited(ForestIds(forest)) = DOMAIN folders

\* a chain of three folders: the walk below the top one visits the two
\* others, the walk above the bottom one visits all three
C35_Witness ==
    \E a, b, c \in DOMAIN folders :
        /\ folders[a].parent_id = NoId
        /\ folders[b].parent_id = a
        /\ folders[c].parent_id = b
        /\ WalkBelow(folders, a) = <<b, c>>
        /\ Len(WalkAbove(folders, c)) = 3

----------------------------------------------------------------------------
(* References between records *)

\* every reference of tables fo and fi names an existing folder
NoDangling(fo, fi) ==
    /\ \A d \in DOMAIN fo : fo[d].parent_id # NoId => fo[d].parent_id \in DOMAIN fo
    /\ \A f \in DOMAIN fi : fi[f].folder_id # NoId => fi[f].folder_id \in DOMAIN fo

(* C37: in every state reached by requests that run one at a time, the
   parent of every folder record and the folder of every file record name an
   existing folder; and update_folder asked for a parent_id that names no
   existing folder fails and stores nothing. *)
C37_NoDanglingReference ==
    /\ NoDangling(folders, files)
    /\ \A actor \in Actors, d \in DOMAIN folders, name \in FileFolderNames \cup {NoName},
          parent_id \in IdsUpTo(MaxFileFolders) \ DOMAIN folders :
        LET r == UpdateFolderOutcome(actor.id, actor.admin, d, name, parent_id)
        IN  r.status # HTTP_200_OK /\ r.folders = folders /\ r.files = files

\* a folder that holds a file, and whose owner asks update_folder for a
\* parent that was never created: the commit fails on the foreign key
C37_Witness ==
    \E d \in DOMAIN folders, f \in DOMAIN files :
        /\ files[f].folder_id = d
        /\ (d + 1) \notin DOMAIN folders
        /\ LET r == UpdateFolderOutcome(folders[d].created_by, FALSE, d, NoName, d + 1)
           IN  /\ r.status = HTTP_500_INTERNAL_SERVER_ERROR
               /\ r.folders = folders

----------------------------------------------------------------------------
(* Requests that fail: one tenant who creates, moves and renames folders and
   uploads, moves and describes a private file; every request is also looked
   at as made by the other users *)

NextUnwind ==
    \/ CreateFolder(Owner, Names, MaxUnwindFolders)
    \/ UpdateFolder(Owner, Names, MaxUnwindFolders)
    \/ UploadFileWith(Owner, {FALSE}, {}, MaxUnwindFiles, MaxUnwindFileFolders)
    \/ MoveFile(Owner, MaxUnwindFiles, MaxUnwindFileFolders)
    \/ UpdateFile(Owner, MaxUnwindFiles)

SpecUnwind == Init /\ [][NextUnwind]_vars

\* the outcome r of a request is a failure that left both tables as they were
FailsClean(r) == r.status # HTTP_200_OK => (r.folders = folders /\ r.files = files)

(* C36: a request that fails leaves its target as it was.  An update_folder
   that asks for a move and a rename and is refused for a duplicate name has
   neither moved nor renamed the folder; and every update_folder, move_file,
   update_file and update_file_visibility that ends in an error leaves the
   folder and file records unchanged. *)
C36_FailureLeavesRecord ==
    \A actor \in Actors :
        /\ \A d \in DOMAIN folders, name \in Names \cup {NoName},
              parent_id \in IdsUpTo(MaxUnwindFolders) \cup {NoId} :
            FailsClean(UpdateFolderOutcome(actor.id, actor.admin, d, name, parent_id))
        /\ \A f \in DOMAIN files :
            /\ \A folder_id \in IdsUpTo(MaxUnwindFolders) \cup {NoId} :
                FailsClean(MoveFileOutcome(actor.id, actor.admin, f, folder_id))
            /\ \A description \in Descriptions \cup {NoText} :
                FailsClean(UpdateFileOutcome(actor.id, actor.admin, f, description, NoText, NoText))
            /\ \A is_public \in OptBool :
                \A slug \in VisibilitySlugChoices(f, is_public, NoText) :
                    FailsClean(UpdateFileVisibilityOutcome(actor.id, actor.admin, f, is_public,
                                                           NoText, NoText, NoText, slug))

\* a folder x whose owner asks to move it under p and to give it the name
\* of a folder that is already in p: the request is refused for the name and
\* x has its old parent and its old name; and a file that another user asks
\* to move, describe or publish
C36_Witness ==
    \E x, p, c \in DOMAIN folders, f \in DOMAIN files :
        /\ folders[c].parent_id = p /\ x # c /\ x # p
        /\ folders[x].parent_id # p /\ folders[x].name # folders[c].name
        /\ LET r == UpdateFolderOutcome(1, FALSE, x, folders[c].name, p)
           IN  /\ r.status = HTTP_400_BAD_REQUEST
               /\ r.detail = "A folder with this name already exists in this location"
               /\ r.folders[x] = folders[x]
        /\ MoveFileOutcome(2, FALSE, f, NoId).status = HTTP_403_FORBIDDEN
        /\ UpdateFileOutcome(2, FALSE, f, "d", NoText, NoText).status = HTTP_403_FORBIDDEN
        /\ UpdateFileVisibilityOutcome(2, FALSE, f, "True", NoText, NoText, NoText, <<"swift-star", "a7b3">>).status = HTTP_403_FORBIDDEN

----------------------------------------------------------------------------
(* Recursive deletion as a unit *)

\* of the folder records gone_folders and file records gone_files, tables fo
\* and fi hold all or none
AllOrNone(fo, fi, gone_folders, gone_files) ==
    \/ gone_folders \subseteq DOMAIN fo /\ gone_files \subseteq DOMAIN fi
    \/ gone_folders \cap DOMAIN fo = {} /\ gone_files \cap DOMAIN fi = {}

(* C34: a recursive delete_folder removes the records of its subtree as a
   unit: whatever the order of the traversal and wherever a blob deletion
   fails, the tables the request leaves for the other requests hold either
   every folder and file record of the subtree or none of them: all of them
   after a failure, none after a success. *)
C34_SubtreeRemovedAsUnit ==
    \A d \in DOMAIN folders :
        LET subtree == Subtree(d)
            under == FilesUnder(d)
            orders == DeleteOrders(d, TRUE)
        IN  \A actor \in Actors, order \in orders :
                \A fail_at \in 0..Len(order) :
                    LET r == DeleteFolderOutcome(actor.id, actor.admin, d, TRUE, order, fail_at)
                    IN  /\ AllOrNone(r.folders, r.files, subtree, under)
                        /\ r.status # HTTP_200_OK
                            => (subtree \subseteq DOMAIN r.folders /\ under \subseteq DOMAIN r.files)
                        /\ r.status = HTTP_200_OK => d \notin DOMAIN r.folders

\* a folder with a file and a subfolder with a file: the delete that fails
\* at its second blob leaves the two folder and the two file records, the
\* one that does not fail removes the four
C34_Witness ==
    \E d, s \in DOMAIN folders, f, g \in DOMAIN files :
        /\ folders[s].parent_id = d
        /\ files[f].folder_id = d /\ files[g].folder_id = s
        /\ LET failed == DeleteFolderOutcome(1, FALSE, d, TRUE, <<f, g>>, 2)
               done == DeleteFolderOutcome(1, FALSE, d, TRUE, <<f, g>>, 0)
           IN  /\ failed.status = HTTP_500_INTERNAL_SERVER_ERROR
               /\ {d, s} \subseteq DOMAIN failed.folders
               /\ {f, g} \subseteq DOMAIN failed.files
               /\ done.status = HTTP_200_OK
               /\ {d, s} \cap DOMAIN done.folders = {}
               /\ {f, g} \cap DOMAIN done.files = {}

----------------------------------------------------------------------------
(* Folder requests that interleave.  The routes of api/folders.py are plain
   functions, which the framework runs on a thread pool, each with a session
   of its own (get_db); delete_folder is a coroutine that yields at every
   blob deletion.  A request reads committed rows, checks, and writes at its
   commit; other requests commit in between. *)

\* the checks of a method raised (an HTTPException of the method itself)
ChecksRaise(r) ==
    r.status \in {HTTP_400_BAD_REQUEST, HTTP_403_FORBIDDEN, HTTP_404_NOT_FOUND}

\* create_folder up to the construction of the Folder object (lines 28-58)
BeginCreateFolder(actors, names, cap) ==
    \E actor \in actors, name \in names, parent_id \in IdsUpTo(cap) \cup {NoId} :
        /\ FreeSlots # {}
        /\ nextFolder <= cap
        /\ IF ChecksRaise(CreateFolderOutcome(actor.id, actor.admin, name, parent_id))
           THEN UNCHANGED <<reqs, nextFolder>>
           ELSE /\ reqs' = (Slot :> [op |-> "create_folder",
                                     folder_id |-> nextFolder,
                                     row |-> [name |-> name, parent_id |-> parent_id,
                                              created_by |-> actor.id]])
                                @@ reqs
                /\ nextFolder' = nextFolder + 1
        /\ UNCHANGED <<folders, files, blobs, nextFile>>

\* create_folder: db.add and db.commit (lines 60-61)
FinishCreateFolder ==
    \E q \in DOMAIN reqs :
        /\ reqs[q].op = "create_folder"
        /\ Done(CommitFolders((reqs[q].folder_id :> reqs[q].row) @@ folders))
        /\ reqs' = Restrict(reqs, DOMAIN reqs \ {q})
        /\ UNCHANGED <<nextFolder, nextFile>>

\* update_folder, lines 183 and 200: the Folder object as the request leaves
\* it in its session
UpdatedFolder(folder, name, parent_id) ==
    [folder EXCEPT !.parent_id = IF parent_id # NoId THEN parent_id ELSE @,
                   !.name = IF name # NoName THEN name ELSE @]

\* update_folder up to the last assignment (lines 158-200); a request names
\* the id of a folder that was created before it (a uuid4 cannot be guessed)
BeginUpdateFolder(actors, names, parents, cap) ==
    \E actor \in actors, folder_id \in IdsUpTo(cap),
       name \in names \cup {NoName}, parent_id \in parents :
        /\ FreeSlots # {}
        /\ parent_id < nextFolder
        /\ IF ChecksRaise(UpdateFolderOutcome(actor.id, actor.admin, folder_id, name, parent_id))
           THEN UNCHANGED reqs
           ELSE reqs' = (Slot :> [op |-> "update_folder",
                                  folder_id |-> folder_id,
                                  loaded |-> folders[folder_id],
                                  row |-> UpdatedFolder(folders[folder_id], name, parent_id)])
                            @@ reqs
        /\ UNCHANGED <<folders, files, blobs, nextFolder, nextFile>>

\* update_folder, line 202: db.commit().  The UPDATE sets the columns the
\* request changed, on the row as it is now; a row deleted in between makes
\* the flush fail
FolderWrite(folder_id, loaded, row) ==
    IF folder_id \notin DOMAIN folders
    THEN Raise(HTTP_500_INTERNAL_SERVER_ERROR, "Internal Server Error")
    ELSE LET cur == folders[folder_id]
             new == [c \in DOMAIN cur |-> IF row[c] # loaded[c] THEN row[c] ELSE cur[c]]
         IN  CommitFolders([folders EXCEPT ![folder_id] = new])

FinishUpdateFolder ==
    \E q \in DOMAIN reqs :
        /\ reqs[q].op = "update_folder"
        /\ Done(FolderWrite(reqs[q].folder_id, reqs[q].loaded, reqs[q].row))
        /\ reqs' = Restrict(reqs, DOMAIN reqs \ {q})
        /\ UNCHANGED <<nextFolder, nextFile>>

\* delete_folder(folder_id, recursive=False) up to the end of the emptiness
\* check (lines 209-231)
BeginDeleteFolder(actors, cap) ==
    \E actor \in actors, folder_id \in IdsUpTo(cap) :
        /\ FreeSlots # {}
        /\ IF ChecksRaise(DeleteFolderOutcome(actor.id, actor.admin, folder_id, FALSE, <<>>, 0))
           THEN UNCHANGED reqs
           ELSE reqs' = (Slot :> [op |-> "delete_folder", folder_id |-> folder_id]) @@ reqs
        /\ UNCHANGED <<folders, files, blobs, nextFolder, nextFile>>

\* delete_folder, lines 233-234: db.delete(folder) and db.commit().  The unit
\* of work loads the two collections of the folder: the File rows of
\* Folder.files (cascade "all, delete-orphan", models/file.py line 22) are
\* deleted with it, the Folder rows of the backref subfolders (no cascade,
\* line 20) get parent_id NULL.  seen = FALSE: the rows were committed after
\* the collections were loaded, and the DELETE meets the foreign keys
FolderDeleteFlush(folder_id, seen) ==
    IF folder_id \notin DOMAIN folders
    THEN Raise(HTTP_200_OK, "ok")
    ELSE LET subfolders == ChildrenOf(folders, folder_id)
             held == FilesIn(files, folder_id)
             rest == Restrict(folders, DOMAIN folders \ {folder_id})
         IN  IF seen
             THEN Commit([d \in DOMAIN rest |->
                            IF d \in subfolders THEN [rest[d] EXCEPT !.parent_id = NoId]
                            ELSE rest[d]],
                         Restrict(files, DOMAIN files \ held),
                         blobs)
             ELSE Commit(rest, files, blobs)

FinishDeleteFolder ==
    \E q \in DOMAIN reqs, seen \in BOOLEAN :
        /\ reqs[q].op = "delete_folder"
        /\ Done(FolderDeleteFlush(reqs[q].folder_id, seen))
        /\ reqs' = Restrict(reqs, DOMAIN reqs \ {q})
        /\ UNCHANGED <<nextFolder, nextFile>>

\* moves at a time: a tenant and an admin who create folders and move them
NextMoves ==
    \/ CreateFolder(TreeActors, Names, MaxRaceFolders)
    \/ BeginUpdateFolder(TreeActors, {}, IdsUpTo(MaxRaceFolders), MaxRaceFolders)
    \/ FinishUpdateFolder

SpecMoves == Init /\ [][NextMoves]_vars

\* creations and renames at a time: one tenant; no request moves a folder
NextNames ==
    \/ BeginCreateFolder(Owner, Names, MaxRaceFolders)
    \/ FinishCreateFolder
    \/ BeginUpdateFolder(Owner, Names, {NoId}, MaxRaceFolders)
    \/ FinishUpdateFolder

SpecNames == Init /\ [][NextNames]_vars

\* a non-recursive deletion beside requests that fill the folder: one tenant
NextOrphans ==
    \/ CreateFolder(Owner, Names, MaxOrphanFolders)
    \/ UpdateFolder(Owner, {}, MaxOrphanFolders)
    \/ UploadFileWith(Owner, {FALSE}, {}, MaxOrphanFiles, MaxOrphanFolders)
    \/ MoveFile(Owner, MaxOrphanFiles, MaxOrphanFolders)
    \/ BeginDeleteFolder(Owner, MaxOrphanFolders)
    \/ FinishDeleteFolder

SpecOrphans == Init /\ [][NextOrphans]_vars

(* C32: when update_folder requests that move folders run at the same time,
   each checking self and descendants on the rows it read and then writing
   the parent, the parent relation stays acyclic: no folder is reachable
   from itself by following parent_id. *)
C32_MovesKeepForest ==
    \A d \in DOMAIN folders :
        \E n \in 1..Cardinality(DOMAIN folders) : ParentN(folders, d, n) = NoId

(* C33: when create_folder or renaming update_folder requests with the same
   owner, parent and name run at the same time, at most one of them takes
   effect: no state holds two folder records with the same owner, the same
   parent and the same name. *)
C33_OneOfTwinsWins ==
    \A d, e \in DOMAIN folders :
        \/ d = e
        \/ folders[d].created_by # folders[e].created_by
        \/ folders[d].parent_id # folders[e].parent_id
        \/ folders[d].name # folders[e].name

\* the step removes a folder record only if the folder has no subfolder and
\* no file at that moment, and a file record only with its blob
RemovesEmptyOnly ==
    /\ \A d \in DOMAIN folders \ DOMAIN folders' :
        ChildrenOf(folders, d) = {} /\ FilesIn(files, d) = {}
    /\ \A f \in DOMAIN files \ DOMAIN files' : files[f].storage_key \notin blobs'

(* C39: when delete_folder(id, recursive=False) runs at the same time as
   requests that put a subfolder or a file into the folder, the folder is
   never removed while it has a direct child: no record refers to a folder
   that is gone, and no file record is removed while its blob stays. *)
C39_NeverRemovedWithChild ==
    /\ []NoDangling(folders, files)
    /\ [][RemovesEmptyOnly]_vars

====
